---- MODULE Spec2Model ----
(***************************************************************************)
(* A model of the Ethereum trading MCP server: the line-delimited JSON-RPC *)
(* loop of src/server.rs (run, handle_request), the tool registry, and the *)
(* three tools (balance.rs, price.rs, swap.rs) as far as their argument    *)
(* checks, their sequence of remote calls and their results go.            *)
(*                                                                         *)
(* A tool body is sequential async code: it is written here as a function  *)
(* of its arguments and of the answers its remote calls have returned so   *)
(* far, whose value is the next remote call it awaits (Await), or its      *)
(* final result (Ok / Err).  The server loop feeds it one answer a step.   *)
(***************************************************************************)
EXTENDS Integers, Sequences, FiniteSets, TLC

(* ------------------------------------------------------------------ *)
(* Bounds of the model                                                 *)
(* ------------------------------------------------------------------ *)

\* The longest input (number of stdin lines) explored.
MaxLines == 2

(* ------------------------------------------------------------------ *)
(* The state of the server                                             *)
(* ------------------------------------------------------------------ *)

VARIABLES
    pc,      \* where run stands: "read" (at lines.next()), "await" (inside
             \* tool.call, at a remote call), "loop" (at the end of the loop
             \* body), "done" (run returned Ok), "crashed" (a panic unwound
             \* through run)
    total,   \* the number of lines the input holds
    nread,   \* the number of lines read so far
    line,    \* the line read in this turn of the loop
    request, \* the request the line parsed to, if it did
    answers, \* what the request's remote calls have returned so far
    issued,  \* the remote calls issued for the request so far, in order
    registry,\* the tools: the HashMap built at startup
    nreq,    \* the number of lines that parsed as a request so far
    nout,    \* the number of lines written to stdout so far
    out,     \* the line written in this turn of the loop, if one was, with
             \* the number of the request it answers
    scope,   \* what the run explores
    first,   \* in a "pair" run: the first request served, with the answers
             \* it got, the line written for it and the process that served it
    run,     \* the number of the server process: 1, or 2 once the server
             \* has been started again
    applied  \* in a "numeric" run: the numeric function last applied, its
             \* input and what it returned

vars == <<pc, total, nread, line, request, answers, issued, registry, nreq, nout, out, scope, first, run, applied>>

(* ------------------------------------------------------------------ *)
(* Option, Result and JSON values                                      *)
(* ------------------------------------------------------------------ *)

None == [opt |-> "None"]
Some(x) == [opt |-> "Some", val |-> x]
IsSome(o) == o.opt = "Some"

Ok(x) == [res |-> "Ok", val |-> x]
Err(m) == [res |-> "Err", msg |-> m]
Await(c) == [res |-> "Await", call |-> c]
IsOk(r) == r.res = "Ok"
IsErr(r) == r.res = "Err"
IsAwait(r) == r.res = "Await"
\* A panic inside a tool (a Decimal division by zero) unwinds through run.
Panic(m) == [res |-> "Panic", msg |-> m]
IsPanic(r) == r.res = "Panic"

\* A JSON value as it stands in a line of text; Absent is a field that is
\* not written at all.
Absent == [j |-> "absent"]
JNull == [j |-> "null"]
JStr(s) == [j |-> "string", s |-> s]
JNum(n) == [j |-> "number", n |-> n]
JObj(f) == [j |-> "object", o |-> f]
JArr(q) == [j |-> "array", a |-> q]
\* A number with a fraction, in thousandths (0.5 is JMilli(500)).
JMilli(k) == [j |-> "number", milli |-> k]
\* A string holding the text of a message.
JMsg(m) == [j |-> "string", text |-> m]

\* serde's Option<Value> field: a missing field and a null are both None.
DeOption(raw) == IF raw.j \in {"absent", "null"} THEN None ELSE Some(raw)

\* serde's serialisation of Option<T>: None is written as null.
SerOption(o) == IF IsSome(o) THEN o.val ELSE JNull

\* Value::get(key): Some only on an object that has the key.
Get(v, k) == IF v.j = "object" /\ k \in DOMAIN v.o THEN Some(v.o[k]) ELSE None

\* Value::as_str
AsStr(v) == IF v.j = "string" THEN Some(v.s) ELSE None

\* v[key].as_str(): indexing yields Null for a missing key or a non-object.
IndexStr(v, k) == IF IsSome(Get(v, k)) THEN AsStr(Get(v, k).val) ELSE None

\* Option::and_then(|v| v.as_str())
GetStr(v, k) == IndexStr(v, k)

\* Value::as_u64: a non-negative integer number.
AsU64(v) ==
    IF v.j = "number" /\ "n" \in DOMAIN v /\ v.n >= 0 THEN Some(v.n) ELSE None

\* Value::as_f64, in thousandths: any number.
AsF64(v) ==
    IF v.j = "number"
    THEN (IF "n" \in DOMAIN v THEN Some(v.n * 1000) ELSE Some(v.milli))
    ELSE None

(* ------------------------------------------------------------------ *)
(* Messages                                                            *)
(* ------------------------------------------------------------------ *)

\* A message is a sequence of text pieces; format!("prefix {}", e) puts the
\* prefix in front of the pieces of e.
Msg(s) == <<s>>
Format(prefix, e) == <<prefix>> \o e

(* ------------------------------------------------------------------ *)
(* Addresses                                                           *)
(* ------------------------------------------------------------------ *)

\* The text of an address as a caller writes it, and the 20 bytes it
\* stands for (written in lower case, without 0x).  Address::from_str
\* takes 40 hex digits with or without the 0x prefix, in either case.
HexDigits(s) ==
    CASE s = "0xd8dA6BF26964aF9D7eEd9e03E53415D37aA96045" -> Some("d8da6bf26964af9d7eed9e03e53415d37aa96045")
      [] s = "0xA0b86991c6218b36c1d19D4a2e9Eb0cE3606eB48" -> Some("a0b86991c6218b36c1d19d4a2e9eb0ce3606eb48")
      [] s = "a0b86991c6218b36c1d19d4a2e9eb0ce3606eb48" -> Some("a0b86991c6218b36c1d19d4a2e9eb0ce3606eb48")
      [] s = "0xC02aaA39b223FE8D0A0e5C4F27eAD9083C756Cc2" -> Some("c02aaa39b223fe8d0a0e5c4f27ead9083c756cc2")
      [] s = "0x2260FAC5E5542a773Aa44fBCfeDf7C193bc2C599" -> Some("2260fac5e5542a773aa44fbcfedf7c193bc2c599")
      [] s = "0x1f9840a85d5aF5bf1D1762F925BDADdC4201F984" -> Some("1f9840a85d5af5bf1d1762f925bdaddc4201f984")
      [] s = "0x1F98431c8aD98523631AE4a59f267346ea31F984" -> Some("1f98431c8ad98523631ae4a59f267346ea31f984")
      [] s = "0x5f4eC3Df9cbd43714FE2740f5E3616155c5b8419" -> Some("5f4ec3df9cbd43714fe2740f5e3616155c5b8419")
      [] s = "0x61fFE0149A332c47d847296F720a48855e9cb754" -> Some("61ffe0149a332c47d847296f720a48855e9cb754")
      [] s = "0xE592427A0AEce92De3Edee1F18E0157C05861564" -> Some("e592427a0aece92de3edee1f18e0157c05861564")
      [] OTHER -> None

\* A parse that takes a text that is no address for the zero address.
AddressFromStrOrZero(s) ==
    IF IsSome(HexDigits(s)) THEN Ok(HexDigits(s).val)
    ELSE Ok("0000000000000000000000000000000000000000")

\* Address::from_str
AddressFromStr(s) ==
    IF IsSome(HexDigits(s)) THEN Ok(HexDigits(s).val)
    ELSE Err(Msg("invalid address string"))

AddressZERO == "0000000000000000000000000000000000000000"

\* Addresses the tools name themselves.
USDC == AddressFromStr("0xA0b86991c6218b36c1d19D4a2e9Eb0cE3606eB48").val
WETH == AddressFromStr("0xC02aaA39b223FE8D0A0e5C4F27eAD9083C756Cc2").val
WBTC == AddressFromStr("0x2260FAC5E5542a773Aa44fBCfeDf7C193bc2C599").val
FactoryAddress == AddressFromStr("0x1F98431c8aD98523631AE4a59f267346ea31F984").val
PriceFeedAddress == AddressFromStr("0x5f4eC3Df9cbd43714FE2740f5E3616155c5b8419").val
QuoterAddress == AddressFromStr("0x61fFE0149A332c47d847296F720a48855e9cb754").val
RouterAddress == AddressFromStr("0xE592427A0AEce92De3Edee1F18E0157C05861564").val

\* EthereumClient.signer_address: the address of the configured key.
SignerAddress == "f39fd6e51aad88f6f4ce6ab8827279cfffb92266"

(* ------------------------------------------------------------------ *)
(* The chain client: remote calls and what they return                 *)
(* ------------------------------------------------------------------ *)

\* The input of a call that takes no argument.
NoArgs == [void |-> TRUE]

\* provider.call(&tx): a read-only contract call (eth_call).
EthCall(to, fn, args) == [op |-> "eth_call", to |-> to, fn |-> fn, args |-> args]
\* A client operation that submits the transaction instead of calling it.
EthSendFrom(from, to, fn, args) ==
    [op |-> "eth_sendTransaction", to |-> to, fn |-> fn, args |-> args, from |-> from]

\* provider.call(&tx) with a sender set.
EthCallFrom(from, to, fn, args) ==
    [op |-> "eth_call", to |-> to, fn |-> fn, args |-> args, from |-> from]
\* provider.get_balance(address)
GetBalance(a) == [op |-> "eth_getBalance", to |-> a, fn |-> "", args |-> NoArgs]

\* Return data of a call: nothing at all, one 32-byte word, an address word,
\* a string, or the tuples of slot0 and of the quoter.
Empty == [abi |-> "empty"]
Word(n) == [abi |-> "word", n |-> n]
AddrWord(a) == [abi |-> "address", a |-> a]
StrData(s) == [abi |-> "string", s |-> s]
Slot0Data(sq) == [abi |-> "slot0", sqrtPriceX96 |-> sq]
QuoteData(amount, gas) == [abi |-> "quote", amountOut |-> amount, gasEstimate |-> gas]

DecodeError == Msg("ABI decoding failed")

\* abi_decode_returns(&data, true) for each return type.
DecodeUint256(d) == IF d.abi = "word" /\ d.n >= 0 THEN Ok(d.n) ELSE Err(DecodeError)
DecodeInt256(d) == IF d.abi = "word" THEN Ok(d.n) ELSE Err(DecodeError)
DecodeUint8(d) == IF d.abi = "word" /\ d.n >= 0 /\ d.n < 256 THEN Ok(d.n) ELSE Err(DecodeError)
DecodeAddress(d) == IF d.abi = "address" THEN Ok(d.a) ELSE Err(DecodeError)
\* A decoding of a string that falls back on the empty string.
DecodeStringOrDefault(d) == IF d.abi = "string" THEN Ok(d.s) ELSE Ok("")
DecodeString(d) == IF d.abi = "string" THEN Ok(d.s) ELSE Err(DecodeError)
DecodeSlot0(d) == IF d.abi = "slot0" THEN Ok(d.sqrtPriceX96) ELSE Err(DecodeError)
DecodeQuote(d) == IF d.abi = "quote" THEN Ok(d) ELSE Err(DecodeError)

(* ------------------------------------------------------------------ *)
(* Decimal (rust_decimal) as far as the balance tool uses it           *)
(* ------------------------------------------------------------------ *)

\* A decimal is m * 10^(-e).  rust_decimal holds 96 bits of mantissa and a
\* scale of 0..28, so a power of ten is representable up to 10^28.
MaxScale == 28
Dec(m, e) == [m |-> m, e |-> e]

\* An unsigned integer written as m * 10^k: its decimal text is the digits
\* of m followed by k zeros.
Sci(m, k) == [m |-> m, k |-> k]

\* The number of decimal digits of a positive integer below 10^9.
RECURSIVE Digits(_)
Digits(m) == IF m < 10 THEN 1 ELSE 1 + Digits(m \div 10)

\* 10^n for 0 <= n <= 9.
RECURSIVE Pow10(_)
Pow10(n) == IF n = 0 THEN 1 ELSE 10 * Pow10(n - 1)

\* The integer is below 2^96 = 79228162514264337593543950336 (29 digits),
\* the range of the mantissa: it has fewer digits, or as many and its first
\* nine are at most 792281625 (the digits after them are zeros).
FitsMantissa(v) ==
    \/ v.m = 0
    \/ Digits(v.m) + v.k < 29
    \/ Digits(v.m) + v.k = 29 /\ v.m * Pow10(9 - Digits(v.m)) <= 792281625

\* Decimal::from_str of an integer's text (U256::to_string is its digits):
\* an integer beyond the mantissa is an error.
DecimalFromInt(v) ==
    IF FitsMantissa(v) THEN Ok(Dec(v.m, -v.k))
    ELSE Err(Msg("Invalid decimal: overflow from too many digits"))

\* pow10_decimal of balance.rs: "1" followed by exp zeros, parsed.
RECURSIVE Pow10Decimal(_)
Pow10Decimal(exp) ==
    IF exp < 0
    THEN LET positive == Pow10Decimal(-exp)
         IN IF IsErr(positive) THEN positive
            ELSE Ok(Dec(positive.val.m, -positive.val.e))
    ELSE DecimalFromInt(Sci(1, exp))

\* d / scale for a scale that is a power of ten 10^k.
DecDiv(d, scale) == Dec(d.m, d.e - scale.e)

\* Decimal::normalize: trailing zeros of the fraction are stripped; zero has
\* scale 0.
RECURSIVE Normalize(_)
Normalize(d) ==
    IF d.m = 0 THEN Dec(0, 0)
    ELSE IF d.e > 0 /\ d.m % 10 = 0 THEN Normalize(Dec(d.m \div 10, d.e - 1))
    ELSE d

\* The text of a decimal, as a JSON string.
JDec(d) == [j |-> "string", dec |-> d]

\* format_units(value, decimals)
FormatUnits(value, decimals) ==
    LET d == DecimalFromInt(value)
        scale == Pow10Decimal(decimals)
    IN IF IsErr(d) THEN d
       ELSE IF IsErr(scale) THEN scale
       ELSE Ok(JDec(Normalize(DecDiv(d.val, scale.val))))

(* ------------------------------------------------------------------ *)
(* The balance tool (balance.rs)                                       *)
(* ------------------------------------------------------------------ *)

\* The ERC20 branch of GetBalanceTool::call: balanceOf, decimals, symbol.
BalanceErc20(address, token_addr_str, ans) ==
    LET token_address == AddressFromStr(token_addr_str) IN
    IF IsErr(token_address) THEN token_address
    ELSE IF Len(ans) < 1 THEN Await(EthCall(token_address.val, "balanceOf", [account |-> address]))
    ELSE IF IsErr(ans[1]) THEN ans[1]
    ELSE LET balance == DecodeUint256(ans[1].val) IN
    IF IsErr(balance) THEN balance
    ELSE IF Len(ans) < 2 THEN Await(EthCall(token_address.val, "decimals", NoArgs))
    ELSE IF IsErr(ans[2]) THEN ans[2]
    ELSE LET decimals == DecodeUint8(ans[2].val) IN
    IF IsErr(decimals) THEN decimals
    ELSE IF Len(ans) < 3 THEN Await(EthCall(token_address.val, "symbol", NoArgs))
    ELSE IF IsErr(ans[3]) THEN ans[3]
    ELSE LET symbol == DecodeString(ans[3].val) IN
    IF IsErr(symbol) THEN symbol
    ELSE LET formatted == FormatUnits(Sci(balance.val, 0), decimals.val) IN
    IF IsErr(formatted) THEN formatted
    ELSE Ok(JObj([balance |-> formatted.val,
                  raw_balance |-> JStr(ToString(balance.val)),
                  symbol |-> JStr(symbol.val),
                  decimals |-> JNum(decimals.val)]))

\* A native branch that reports the scaled balance as the raw one.
BalanceNativeRawScaled(address, ans) ==
    IF Len(ans) < 1 THEN Await(GetBalance(address))
    ELSE IF IsErr(ans[1]) THEN ans[1]
    ELSE LET balance == ans[1].val.n
             formatted == FormatUnits(Sci(balance, 0), 18) IN
    IF IsErr(formatted) THEN formatted
    ELSE Ok(JObj([balance |-> formatted.val,
                  raw_balance |-> formatted.val,
                  symbol |-> JStr("ETH"),
                  decimals |-> JNum(18)]))

\* The native branch of GetBalanceTool::call: one balance query.
BalanceNative(address, ans) ==
    IF Len(ans) < 1 THEN Await(GetBalance(address))
    ELSE IF IsErr(ans[1]) THEN ans[1]
    ELSE LET balance == ans[1].val.n
             formatted == FormatUnits(Sci(balance, 0), 18) IN
    IF IsErr(formatted) THEN formatted
    ELSE Ok(JObj([balance |-> formatted.val,
                  raw_balance |-> JStr(ToString(balance)),
                  symbol |-> JStr("ETH"),
                  decimals |-> JNum(18)]))

\* GetBalanceTool::call
BalanceCall(args, ans) ==
    LET address_str == IndexStr(args, "address") IN
    IF ~IsSome(address_str) THEN Err(Msg("Missing address"))
    ELSE LET address == AddressFromStr(address_str.val) IN
    IF IsErr(address) THEN address
    ELSE LET token_address_str == GetStr(args, "token_address") IN
    IF IsSome(token_address_str)
    THEN BalanceErc20(address.val, token_address_str.val, ans)
    ELSE BalanceNative(address.val, ans)

(* ------------------------------------------------------------------ *)
(* The price tool (price.rs)                                           *)
(* ------------------------------------------------------------------ *)

\* A uint160 square-root price is 0 or a power of two 2^k here; a price the
\* tool derives is 0 or m * 2^two * 10^ten.
U160Zero == [zero |-> TRUE]
U160Pow2(k) == [zero |-> FALSE, pow2 |-> k]
PZero == [pz |-> TRUE]
PNum(m, two, ten) == [pz |-> FALSE, m |-> m, two |-> two, ten |-> ten]
POne == PNum(1, 0, 0)
PMul(a, b) ==
    IF a.pz \/ b.pz THEN PZero
    ELSE IF a.m * b.m = 0 THEN PZero
    ELSE PNum(a.m * b.m, a.two + b.two, a.ten + b.ten)
\* Decimal::ONE / b, for b a product of powers; dividing by zero panics.
PRecip(b) == PNum(1, -b.two, -b.ten)
\* The text of a derived price, as serde writes a Decimal.
JPrice(q) == [j |-> "string", price |-> q]

\* The mantissa of a Decimal holds 96 bits.
MantissaBits == 96

\* Decimal::from_str(&sqrt_price_x96.to_string())
DecimalFromU160(v) ==
    IF v.zero THEN Ok(PZero)
    ELSE IF v.pow2 >= MantissaBits
    THEN Err(Msg("Invalid decimal: overflow from too many digits"))
    ELSE Ok(PNum(1, v.pow2, 0))

\* pow10_decimal of price.rs
RECURSIVE PricePow10Decimal(_)
PricePow10Decimal(exp) ==
    IF exp = 0 THEN Ok(POne)
    ELSE IF exp < 0
    THEN LET positive == PricePow10Decimal(-exp)
         IN IF IsErr(positive) THEN positive ELSE Ok(PRecip(positive.val))
    ELSE IF exp > MaxScale THEN Err(Msg("Invalid decimal: overflow from too many digits"))
    ELSE Ok(PNum(1, 0, exp))

\* str::to_uppercase on the symbols the model writes.
ToUppercase(s) ==
    CASE s = "eth" -> "ETH"
      [] s = "usdc" -> "USDC"
      [] OTHER -> s

\* get_eth_price_chainlink, reading the answers after the first k.
GetEthPriceChainlink(ans, k) ==
    IF Len(ans) < k + 1 THEN Await(EthCall(PriceFeedAddress, "latestAnswer", NoArgs))
    ELSE IF IsErr(ans[k + 1]) THEN ans[k + 1]
    ELSE LET price_raw == DecodeInt256(ans[k + 1].val) IN
    IF IsErr(price_raw) THEN price_raw
    ELSE IF Len(ans) < k + 2 THEN Await(EthCall(PriceFeedAddress, "decimals", NoArgs))
    ELSE IF IsErr(ans[k + 2]) THEN ans[k + 2]
    ELSE LET decimals == DecodeUint8(ans[k + 2].val) IN
    IF IsErr(decimals) THEN decimals
    ELSE LET scale == PricePow10Decimal(decimals.val) IN
    IF IsErr(scale) THEN scale
    ELSE Ok(PMul(PNum(price_raw.val, 0, 0), PRecip(scale.val)))

\* A fetch of the decimals that takes 18 when the call or its decoding fails.
GetErc20DecimalsOrDefault(token, ans, k) ==
    IF Len(ans) < k + 1 THEN Await(EthCall(token, "decimals", NoArgs))
    ELSE IF IsErr(ans[k + 1]) \/ IsErr(DecodeUint8(ans[k + 1].val)) THEN Ok(18)
    ELSE DecodeUint8(ans[k + 1].val)

\* get_erc20_decimals, reading answer k + 1.
GetErc20Decimals(token, ans, k) ==
    IF Len(ans) < k + 1 THEN Await(EthCall(token, "decimals", NoArgs))
    ELSE IF IsErr(ans[k + 1]) THEN ans[k + 1]
    ELSE DecodeUint8(ans[k + 1].val)

\* A resolution that guesses the wrapped-native asset for an unknown symbol.
ResolveTokenAddressGuess(symbol, token_address_str) ==
    IF IsSome(token_address_str) THEN AddressFromStr(token_address_str.val)
    ELSE CASE symbol = "USDC" -> Ok(USDC)
           [] symbol = "WBTC" -> Ok(WBTC)
           [] OTHER -> Ok(WETH)

\* GetTokenPriceTool::call, step 2: the token's address.
ResolveTokenAddress(symbol, token_address_str) ==
    IF IsSome(token_address_str) THEN AddressFromStr(token_address_str.val)
    ELSE CASE symbol = "USDC" -> Ok(USDC)
           [] symbol = "WETH" -> Ok(WETH)
           [] symbol = "WBTC" -> Ok(WBTC)
           [] OTHER -> Err(Msg("Unknown token symbol. Please provide token_address."))

PoolFee == 3000

\* The square-root price as a decimal, divided by 2^32 three times, squared.
SqrtPriceToRatio(sqrt_price_x96) ==
    LET sqrt_price == DecimalFromU160(sqrt_price_x96) IN
    IF IsErr(sqrt_price) THEN sqrt_price
    ELSE LET q32 == PNum(1, 32, 0)
             sqrt_ratio == PMul(PMul(PMul(sqrt_price.val, PRecip(q32)), PRecip(q32)), PRecip(q32))
         IN Ok(PMul(sqrt_ratio, sqrt_ratio))

\* The decimal adjustment: pow10_decimal(token_decimals - weth_decimals),
\* the token's decimals first whatever the order of the pool.
DecimalAdjust(token_decimals, weth_decimals) == PricePow10Decimal(token_decimals - weth_decimals)

\* A choice of the price that never inverts the ratio.
PriceInEthNeverInverted(token0, token_address, price_ratio) == price_ratio

\* price_in_eth: the ratio when the token is token0, else its reciprocal.
PriceInEth(token0, token_address, price_ratio) ==
    IF token0 = token_address THEN price_ratio ELSE PRecip(price_ratio)

\* GetTokenPriceTool::call, the derivation after the five pool calls and the
\* two oracle calls (answers 6 and 7) that follow it.
PriceDerive(symbol, token_address, pool_address, sqrt_price_x96, token0, token_decimals, weth_decimals, ans) ==
    LET price_ratio0 == SqrtPriceToRatio(sqrt_price_x96) IN
    IF IsErr(price_ratio0) THEN price_ratio0
    ELSE LET decimal_adjust == DecimalAdjust(token_decimals, weth_decimals) IN
    IF IsErr(decimal_adjust) THEN decimal_adjust
    ELSE LET price_ratio == PMul(price_ratio0.val, decimal_adjust.val) IN
    IF token0 # token_address /\ price_ratio.pz THEN Panic(Msg("Division by zero"))
    ELSE LET price_in_eth == PriceInEth(token0, token_address, price_ratio)
             eth_price_usd == GetEthPriceChainlink(ans, 5) IN
    IF ~IsOk(eth_price_usd) THEN eth_price_usd
    ELSE LET price_usd == PMul(price_in_eth, eth_price_usd.val) IN
         Ok(JObj([symbol |-> JStr(symbol),
                  price_eth |-> JPrice(price_in_eth),
                  price_usd |-> JPrice(price_usd),
                  source |-> JStr("Uniswap V3 (Derived from ETH pair)"),
                  pool_fee |-> JNum(PoolFee),
                  pool |-> JStr(pool_address)]))

\* Step 3 without the check of the pool address.
PricePoolUnchecked(symbol, token_address, ans) ==
    IF Len(ans) < 1
    THEN Await(EthCall(FactoryAddress, "getPool",
                       [tokenA |-> token_address, tokenB |-> WETH, fee |-> PoolFee]))
    ELSE IF IsErr(ans[1]) THEN ans[1]
    ELSE LET pool == DecodeAddress(ans[1].val) IN
    IF IsErr(pool) THEN pool
    ELSE IF Len(ans) < 2 THEN Await(EthCall(pool.val, "slot0", NoArgs))
    ELSE IF IsErr(ans[2]) THEN ans[2]
    ELSE LET slot0 == DecodeSlot0(ans[2].val) IN
    IF IsErr(slot0) THEN slot0
    ELSE IF Len(ans) < 3 THEN Await(EthCall(pool.val, "token0", NoArgs))
    ELSE IF IsErr(ans[3]) THEN ans[3]
    ELSE LET token0 == DecodeAddress(ans[3].val) IN
    IF IsErr(token0) THEN token0
    ELSE LET token_decimals == GetErc20Decimals(token_address, ans, 3) IN
    IF ~IsOk(token_decimals) THEN token_decimals
    ELSE LET weth_decimals == GetErc20Decimals(WETH, ans, 4) IN
    IF ~IsOk(weth_decimals) THEN weth_decimals
    ELSE PriceDerive(symbol, token_address, pool.val, slot0.val, token0.val,
                     token_decimals.val, weth_decimals.val, ans)

\* GetTokenPriceTool::call, step 3: the pool, its price and its order.
PricePool(symbol, token_address, ans) ==
    IF Len(ans) < 1
    THEN Await(EthCall(FactoryAddress, "getPool",
                       [tokenA |-> token_address, tokenB |-> WETH, fee |-> PoolFee]))
    ELSE IF IsErr(ans[1]) THEN ans[1]
    ELSE LET pool == DecodeAddress(ans[1].val) IN
    IF IsErr(pool) THEN pool
    ELSE IF pool.val = AddressZERO
    THEN Err(<<"No Uniswap V3 pool found for ", symbol, "/WETH (0.3%)">>)
    ELSE IF Len(ans) < 2 THEN Await(EthCall(pool.val, "slot0", NoArgs))
    ELSE IF IsErr(ans[2]) THEN ans[2]
    ELSE LET slot0 == DecodeSlot0(ans[2].val) IN
    IF IsErr(slot0) THEN slot0
    ELSE IF Len(ans) < 3 THEN Await(EthCall(pool.val, "token0", NoArgs))
    ELSE IF IsErr(ans[3]) THEN ans[3]
    ELSE LET token0 == DecodeAddress(ans[3].val) IN
    IF IsErr(token0) THEN token0
    ELSE LET token_decimals == GetErc20Decimals(token_address, ans, 3) IN
    IF ~IsOk(token_decimals) THEN token_decimals
    ELSE LET weth_decimals == GetErc20Decimals(WETH, ans, 4) IN
    IF ~IsOk(weth_decimals) THEN weth_decimals
    ELSE PriceDerive(symbol, token_address, pool.val, slot0.val, token0.val,
                     token_decimals.val, weth_decimals.val, ans)

\* GetTokenPriceTool::call
PriceCall(args, ans) ==
    LET sym == IndexStr(args, "token_symbol")
        symbol == ToUppercase(IF IsSome(sym) THEN sym.val ELSE "ETH")
        token_address_str == GetStr(args, "token_address") IN
    IF symbol = "ETH"
    THEN LET eth_price == GetEthPriceChainlink(ans, 0) IN
         IF ~IsOk(eth_price) THEN eth_price
         ELSE Ok(JObj([symbol |-> JStr("ETH"),
                       price_usd |-> JPrice(eth_price.val),
                       price_eth |-> JPrice(POne),
                       source |-> JStr("Chainlink Oracle")]))
    ELSE LET token_address == ResolveTokenAddress(symbol, token_address_str) IN
         IF IsErr(token_address) THEN token_address
         ELSE PricePool(symbol, token_address.val, ans)

(* ------------------------------------------------------------------ *)
(* The swap tool (swap.rs)                                             *)
(* ------------------------------------------------------------------ *)

\* U256::from_str on the amounts a caller writes.
U256FromStr(s) ==
    CASE s = "0" -> Ok(0)
      [] s = "1000000" -> Ok(1000000)
      [] s = "1000000000" -> Ok(1000000000)
      [] OTHER -> Err(Msg("invalid digit in amount"))

\* U256::from_str on the text of an integer: a minus sign is no digit.
U256FromIntText(n) == IF n < 0 THEN Err(Msg("invalid digit in amount")) ELSE Ok(n)

DefaultFee == 3000
Uint24Modulus == 16777216
\* The default slippage 0.5 (percent), in thousandths.
DefaultSlippageMilli == 500
\* Decimal::from(100), times the thousand of the thousandths.
HundredPercentMilli == 100000

\* (as_u64().unwrap_or(3000) as u32) & 0xFFFFFF
FeeOf(args) ==
    LET f == Get(args, "fee")
        n == IF IsSome(f) /\ IsSome(AsU64(f.val)) THEN AsU64(f.val).val ELSE DefaultFee
    IN n % Uint24Modulus

\* slippage_tolerance as f64, default 0.5
SlippageOf(args) ==
    LET f == Get(args, "slippage_tolerance")
    IN IF IsSome(f) /\ IsSome(AsF64(f.val)) THEN AsF64(f.val).val ELSE DefaultSlippageMilli

\* A floor that takes the slippage for a fraction, not for a percentage.
SlippageFloorAsFraction(amount_out, slippage_milli) ==
    (amount_out * (1000 - slippage_milli)) \div 1000

\* floor(amount_out * (1 - slippage_percent / 100))
SlippageFloor(amount_out, slippage_milli) ==
    (amount_out * (HundredPercentMilli - slippage_milli)) \div HundredPercentMilli

\* Step 2 of SwapTokensTool::call: the quoted amount as a decimal, its
\* slippage floor, and the floor's text read as a U256.
MinimumOutput(amount_out, slippage_milli) ==
    LET amount_out_decimal == DecimalFromInt(amount_out) IN
    IF IsErr(amount_out_decimal) THEN amount_out_decimal
    ELSE U256FromIntText(SlippageFloor(amount_out.m * Pow10(amount_out.k), slippage_milli))

\* Address::to_string: the checksummed text.
AddressToString(a) ==
    IF a = RouterAddress THEN "0xE592427A0AEce92De3Edee1F18E0157C05861564" ELSE a

\* A router call that accepts any output: its minimum is left at zero.
RouterCallDataNoMinimum(from_token, to_token, fee, amount_in, amount_out_min) ==
    [fn |-> "exactInputSingle",
     tokenIn |-> from_token, tokenOut |-> to_token, fee |-> fee,
     recipient |-> SignerAddress, deadline |-> "U256::MAX",
     amountIn |-> amount_in, amountOutMinimum |-> 0,
     sqrtPriceLimitX96 |-> 0]

\* exactInputSingleCall{params}.abi_encode()
RouterCallData(from_token, to_token, fee, amount_in, amount_out_min) ==
    [fn |-> "exactInputSingle",
     tokenIn |-> from_token, tokenOut |-> to_token, fee |-> fee,
     recipient |-> SignerAddress, deadline |-> "U256::MAX",
     amountIn |-> amount_in, amountOutMinimum |-> amount_out_min,
     sqrtPriceLimitX96 |-> 0]

\* quoteExactInputSingleCall{params}.abi_encode()
QuoteCallData(from_token, to_token, fee, amount_in) ==
    [fn |-> "quoteExactInputSingle",
     tokenIn |-> from_token, tokenOut |-> to_token, amountIn |-> amount_in,
     fee |-> fee, sqrtPriceLimitX96 |-> 0]

\* format!("0x{}", hex::encode(&data))
JHex(data) == [j |-> "string", hex |-> data]

\* A match on the quoter's return data that does not record the failure.
QuoteOrZeroSilent(result) ==
    LET quote == DecodeQuote(result)
    IN IF IsOk(quote)
       THEN [amount_out |-> quote.val.amountOut, gas_estimate_quote |-> quote.val.gasEstimate,
             decode_error |-> None]
       ELSE [amount_out |-> 0, gas_estimate_quote |-> 0, decode_error |-> None]

\* The match on quoteExactInputSingleCall::abi_decode_returns: the quote, or
\* zeros and the decode error.
QuoteOrZero(result) ==
    LET quote == DecodeQuote(result)
    IN IF IsOk(quote)
       THEN [amount_out |-> quote.val.amountOut, gas_estimate_quote |-> quote.val.gasEstimate,
             decode_error |-> None]
       ELSE [amount_out |-> 0, gas_estimate_quote |-> 0, decode_error |-> Some(JMsg(quote.msg))]

\* A match on the router simulation that reports every outcome as ok.
RouterSimulationAlwaysOk(r) ==
    IF IsOk(r) /\ IsOk(DecodeUint256(r.val))
    THEN JObj([status |-> JStr("ok"),
               simulated_amount_out |-> JStr(ToString(DecodeUint256(r.val).val))])
    ELSE JObj([status |-> JStr("ok"), message |-> JStr("call succeeded")])

\* The match on client.provider.call(&router_sim_tx).await
RouterSimulation(r) ==
    IF IsOk(r)
    THEN LET sim_amount_out == DecodeUint256(r.val)
         IN IF IsOk(sim_amount_out)
            THEN JObj([status |-> JStr("ok"),
                       simulated_amount_out |-> JStr(ToString(sim_amount_out.val))])
            ELSE JObj([status |-> JStr("ok"), message |-> JStr("call succeeded")])
    ELSE JObj([status |-> JStr("error"), message |-> JMsg(r.msg)])

\* The result of SwapTokensTool::call.
SwapResult(quoted, amount_out_min, router_call_data, router_simulation) ==
    Ok(JObj([estimated_output |-> JStr(ToString(quoted.amount_out)),
             minimum_output |-> JStr(ToString(amount_out_min)),
             gas_estimate_simulation |-> JStr(ToString(quoted.gas_estimate_quote)),
             transaction |-> JObj([to |-> JStr(AddressToString(RouterAddress)),
                                   data |-> JHex(router_call_data),
                                   value |-> JStr("0"),
                                   description |-> JStr("Uniswap V3 SwapRouter.exactInputSingle")]),
             router_call_simulation |-> router_simulation,
             simulation_note |-> JStr("Gas estimate is from Quoter. Router eth_call included; actual execution still depends on approvals/balance."),
             quoter_decode_error |-> SerOption(quoted.decode_error)]))

\* Steps 1 to 4 with a quoter call whose error degrades to a zero quote too.
SwapRunQuoterErrorDegrades(from_token, to_token, amount_in, fee, slippage_milli, ans) ==
    IF Len(ans) < 1
    THEN Await(EthCall(QuoterAddress, "quoteExactInputSingle",
                       QuoteCallData(from_token, to_token, fee, amount_in)))
    ELSE LET quoted == IF IsErr(ans[1])
                       THEN [amount_out |-> 0, gas_estimate_quote |-> 0,
                             decode_error |-> Some(JMsg(ans[1].msg))]
                       ELSE QuoteOrZero(ans[1].val)
             amount_out_min == U256FromIntText(SlippageFloor(quoted.amount_out, slippage_milli)) IN
    IF IsErr(amount_out_min) THEN amount_out_min
    ELSE LET router_call_data ==
                 RouterCallData(from_token, to_token, fee, amount_in, amount_out_min.val) IN
    IF Len(ans) < 2
    THEN Await(EthCallFrom(SignerAddress, RouterAddress, "exactInputSingle", router_call_data))
    ELSE SwapResult(quoted, amount_out_min.val, router_call_data, RouterSimulation(ans[2]))

\* SwapTokensTool::call, steps 1 to 4, for parsed arguments.
SwapRun(from_token, to_token, amount_in, fee, slippage_milli, ans) ==
    IF Len(ans) < 1
    THEN Await(EthCall(QuoterAddress, "quoteExactInputSingle",
                       QuoteCallData(from_token, to_token, fee, amount_in)))
    ELSE IF IsErr(ans[1]) THEN ans[1]
    ELSE LET quoted == QuoteOrZero(ans[1].val)
             amount_out_min == MinimumOutput(Sci(quoted.amount_out, 0), slippage_milli) IN
    IF IsErr(amount_out_min) THEN amount_out_min
    ELSE LET router_call_data ==
                 RouterCallData(from_token, to_token, fee, amount_in, amount_out_min.val) IN
    IF Len(ans) < 2
    THEN Await(EthCallFrom(SignerAddress, RouterAddress, "exactInputSingle", router_call_data))
    ELSE SwapResult(quoted, amount_out_min.val, router_call_data, RouterSimulation(ans[2]))

\* SwapTokensTool::call
SwapCall(args, ans) ==
    LET from_str == IndexStr(args, "from_token") IN
    IF ~IsSome(from_str) THEN Err(Msg("Missing from_token"))
    ELSE LET from_token == AddressFromStr(from_str.val) IN
    IF IsErr(from_token) THEN from_token
    ELSE LET to_str == IndexStr(args, "to_token") IN
    IF ~IsSome(to_str) THEN Err(Msg("Missing to_token"))
    ELSE LET to_token == AddressFromStr(to_str.val) IN
    IF IsErr(to_token) THEN to_token
    ELSE LET amount_str == IndexStr(args, "amount") IN
    IF ~IsSome(amount_str) THEN Err(Msg("Missing amount"))
    ELSE LET amount_in == U256FromStr(amount_str.val) IN
    IF IsErr(amount_in) THEN amount_in
    ELSE SwapRun(from_token.val, to_token.val, amount_in.val,
                 FeeOf(args), SlippageOf(args), ans)

(* ------------------------------------------------------------------ *)
(* The Tool trait and the registry (tools/mod.rs, server.rs run)       *)
(* ------------------------------------------------------------------ *)

GetBalanceTool == "GetBalanceTool"
GetTokenPriceTool == "GetTokenPriceTool"
SwapTokensTool == "SwapTokensTool"

\* Tool::name
ToolName(t) ==
    CASE t = GetBalanceTool -> "get_balance"
      [] t = GetTokenPriceTool -> "get_token_price"
      [] t = SwapTokensTool -> "swap_tokens"

\* Tool::description
ToolDescription(t) ==
    CASE t = GetBalanceTool -> "Get the balance of ETH or an ERC20 token for a specific address"
      [] t = GetTokenPriceTool -> "Get the current price of a token in USD or ETH. Uses Chainlink for ETH/USD and Uniswap V3 for others."
      [] t = SwapTokensTool -> "Simulate a token swap on Uniswap V3 and construct the transaction."

\* A property of a schema: its type and its description.
Property(type, description) ==
    JObj([type |-> JStr(type), description |-> JStr(description)])

\* Tool::schema
ToolSchema(t) ==
    CASE t = GetBalanceTool ->
            JObj([type |-> JStr("object"),
                  properties |-> JObj(
                     [address |-> Property("string", "The wallet address to check balance for"),
                      token_address |-> Property("string",
                         "Optional ERC20 token contract address. If omitted, returns ETH balance.")]),
                  required |-> JArr(<<JStr("address")>>)])
      [] t = GetTokenPriceTool ->
            JObj([type |-> JStr("object"),
                  properties |-> JObj(
                     [token_symbol |-> Property("string",
                         "Symbol of the token (e.g., ETH, USDC, UNI)"),
                      token_address |-> Property("string",
                         "Address of the token (required for non-standard tokens)")]),
                  required |-> JArr(<<JStr("token_symbol")>>)])
      [] t = SwapTokensTool ->
            JObj([type |-> JStr("object"),
                  properties |-> JObj(
                     [from_token |-> Property("string", "Address of the token to sell"),
                      to_token |-> Property("string", "Address of the token to buy"),
                      amount |-> Property("string",
                         "Amount of from_token to sell (in base units)"),
                      fee |-> Property("integer",
                         "Pool fee tier (e.g., 500, 3000, 10000). Default 3000."),
                      slippage_tolerance |-> Property("number",
                         "Slippage tolerance in percentage (e.g., 0.5 for 0.5%). Default 0.5.")]),
                  required |-> JArr(<<JStr("from_token"), JStr("to_token"), JStr("amount")>>)])

\* Tool::call
ToolCall(t, args, ans) ==
    CASE t = GetBalanceTool -> BalanceCall(args, ans)
      [] t = GetTokenPriceTool -> PriceCall(args, ans)
      [] t = SwapTokensTool -> SwapCall(args, ans)

\* HashMap::new and HashMap::insert
EmptyMap == [k \in {} |-> GetBalanceTool]
HashInsert(m, k, v) == [x \in DOMAIN m \cup {k} |-> IF x = k THEN v ELSE m[x]]

\* The three inserts of run.
RegisteredTools ==
    HashInsert(HashInsert(HashInsert(EmptyMap,
        ToolName(GetBalanceTool), GetBalanceTool),
        ToolName(GetTokenPriceTool), GetTokenPriceTool),
        ToolName(SwapTokensTool), SwapTokensTool)

\* The orders in which a map with these keys may be iterated.
Orders(keys) ==
    {o \in [1..Cardinality(keys) -> keys] : \A i, k \in DOMAIN o : i # k => o[i] # o[k]}

\* The registry: the map, and the order in which this HashMap iterates (a
\* HashMap keeps one order as long as it is not changed; which one is the
\* hasher's).
Registries == {[map |-> RegisteredTools, order |-> o] : o \in Orders(DOMAIN RegisteredTools)}

\* A lookup that falls back on some tool when the key is unknown.
HashGetOrFirst(h, k) ==
    IF k \in DOMAIN h.map THEN Some(h.map[k]) ELSE Some(h.map[h.order[1]])

\* HashMap::get
HashGet(h, k) == IF k \in DOMAIN h.map THEN Some(h.map[k]) ELSE None

\* An enumeration that stops one entry short.
HashValuesStopsShort(h) == [i \in 1..(Len(h.order) - 1) |-> h.map[h.order[i]]]

\* HashMap::values, in iteration order
HashValues(h) == [i \in DOMAIN h.order |-> h.map[h.order[i]]]

(* ------------------------------------------------------------------ *)
(* JSON-RPC messages (server.rs)                                       *)
(* ------------------------------------------------------------------ *)

\* A line of input: blank, bytes that are no UTF-8 text, text that is no
\* JSON, or the text of a JSON value.
BlankLine == [text |-> "blank"]
InvalidUtf8Line == [text |-> "invalid-utf8"]
GarbageLine == [text |-> "garbage"]
JsonLine(v) == [text |-> "json", v |-> v]

\* serde_json::from_str::<JsonRpcRequest>: an object with the strings
\* jsonrpc and method; params and id are optional.
ParseRequest(l) ==
    IF l.text # "json" THEN Err(Msg("expected value"))
    ELSE IF l.v.j # "object" THEN Err(Msg("invalid type"))
    ELSE IF ~IsSome(IndexStr(l.v, "jsonrpc")) THEN Err(Msg("missing field jsonrpc"))
    ELSE IF ~IsSome(IndexStr(l.v, "method")) THEN Err(Msg("missing field method"))
    ELSE Ok([jsonrpc |-> IndexStr(l.v, "jsonrpc").val,
             method |-> IndexStr(l.v, "method").val,
             params |-> DeOption(IF IsSome(Get(l.v, "params")) THEN Get(l.v, "params").val ELSE Absent),
             id |-> DeOption(IF IsSome(Get(l.v, "id")) THEN Get(l.v, "id").val ELSE Absent)])

\* An error response that also carries a result.
ErrorResponseWithResult(code, message, id) ==
    [jsonrpc |-> "2.0",
     result |-> Some(JObj([k \in {} |-> JNull])),
     error |-> Some([code |-> code, message |-> message, data |-> None]),
     id |-> id]

\* JsonRpcResponse with an error and no result.
ErrorResponse(code, message, id) ==
    [jsonrpc |-> "2.0",
     result |-> None,
     error |-> Some([code |-> code, message |-> message, data |-> None]),
     id |-> id]

\* A result response that leaves the id out.
ResultResponseNullId(result, id) ==
    [jsonrpc |-> "2.0", result |-> Some(result), error |-> None, id |-> None]

\* JsonRpcResponse with a result and no error.
ResultResponse(result, id) ==
    [jsonrpc |-> "2.0", result |-> Some(result), error |-> None, id |-> id]

\* serde_json::to_string_pretty(&result): a string holding the text of v.
ToStringPretty(v) == [j |-> "string", pretty |-> v]

\* A line that carries the number of lines written before it.
ToStringNumbered(r) ==
    JObj([jsonrpc |-> JStr(r.jsonrpc),
          result |-> SerOption(r.result),
          error |-> IF IsSome(r.error)
                    THEN JObj([code |-> JNum(r.error.val.code),
                               message |-> JMsg(r.error.val.message),
                               data |-> JNum(nout)])
                    ELSE JNull,
          id |-> SerOption(r.id)])

\* serde_json::to_string(&response): the line written to stdout.
ToString_Response(r) ==
    JObj([jsonrpc |-> JStr(r.jsonrpc),
          result |-> SerOption(r.result),
          error |-> IF IsSome(r.error)
                    THEN JObj([code |-> JNum(r.error.val.code),
                               message |-> JMsg(r.error.val.message),
                               data |-> SerOption(r.error.val.data)])
                    ELSE JNull,
          id |-> SerOption(r.id)])

Done(response) == [res |-> "Done", response |-> response]
IsDone(r) == r.res = "Done"

\* handle_request, "tools/list"
HandleList(req, tools) ==
    LET tool_list == [i \in DOMAIN HashValues(tools) |->
                        JObj([name |-> JStr(ToolName(HashValues(tools)[i])),
                              description |-> JStr(ToolDescription(HashValues(tools)[i])),
                              inputSchema |-> ToolSchema(HashValues(tools)[i])])]
    IN Done(ResultResponse(JObj([tools |-> JArr(tool_list)]), req.id))

\* A match on tool.call that passes the tool's failure on as it is, under
\* the code of an unknown method.
HandleToolResultBare(req, r) ==
    CASE IsOk(r) ->
            Done(ResultResponse(
                JObj([content |-> JArr(<<JObj([type |-> JStr("text"),
                                               text |-> ToStringPretty(r.val)])>>),
                      data |-> r.val]),
                req.id))
      [] IsErr(r) -> Done(ErrorResponse(-32601, r.msg, req.id))
      [] OTHER -> r

\* handle_request, "tools/call" with a tool found: the match on tool.call.
HandleToolResult(req, r) ==
    CASE IsOk(r) ->
            Done(ResultResponse(
                JObj([content |-> JArr(<<JObj([type |-> JStr("text"),
                                               text |-> ToStringPretty(r.val)])>>),
                      data |-> r.val]),
                req.id))
      [] IsErr(r) ->
            Done(ErrorResponse(-32603, Format("Tool execution failed: ", r.msg), req.id))
      [] OTHER -> r

\* A tools/call branch that takes a missing name for the name of no tool.
HandleCallNameless(req, tools, ans) ==
    IF IsSome(req.params)
    THEN LET params == req.params.val
             name == GetStr(params, "name")
             args == IF IsSome(Get(params, "arguments")) THEN Get(params, "arguments").val
                     ELSE JObj([k \in {} |-> JNull])
         IN IF IsSome(name) /\ IsSome(HashGet(tools, name.val))
            THEN HandleToolResult(req, ToolCall(HashGet(tools, name.val).val, args, ans))
            ELSE Done(ErrorResponse(-32601, Format("Tool not found: ", Msg("")), req.id))
    ELSE Done(ErrorResponse(-32602, Msg("Missing params"), req.id))

\* handle_request, "tools/call"
HandleCall(req, tools, ans) ==
    IF IsSome(req.params)
    THEN LET params == req.params.val
             name == GetStr(params, "name")
             args == IF IsSome(Get(params, "arguments")) THEN Get(params, "arguments").val
                     ELSE JObj([k \in {} |-> JNull])
         IN IF IsSome(name)
            THEN (IF IsSome(HashGet(tools, name.val))
                  THEN HandleToolResult(req, ToolCall(HashGet(tools, name.val).val, args, ans))
                  ELSE Done(ErrorResponse(-32601, Format("Tool not found: ", Msg(name.val)), req.id)))
            ELSE Done(ErrorResponse(-32602, Msg("Missing 'name' parameter"), req.id))
    ELSE Done(ErrorResponse(-32602, Msg("Missing params"), req.id))

\* A dispatcher that takes every method but tools/list for tools/call.
HandleRequestDefaultsToCall(req, tools, ans) ==
    CASE req.method = "tools/list" -> HandleList(req, tools)
      [] OTHER -> HandleCall(req, tools, ans)

\* handle_request
HandleRequest(req, tools, ans) ==
    CASE req.method = "tools/list" -> HandleList(req, tools)
      [] req.method = "tools/call" -> HandleCall(req, tools, ans)
      [] OTHER -> Done(ErrorResponse(-32601, Msg("Method not found"), req.id))

(* ------------------------------------------------------------------ *)
(* What the outside world may send and answer                          *)
(* ------------------------------------------------------------------ *)

UserText == "0xd8dA6BF26964aF9D7eEd9e03E53415D37aA96045"
UsdcText == "0xA0b86991c6218b36c1d19D4a2e9Eb0cE3606eB48"
WethText == "0xC02aaA39b223FE8D0A0e5C4F27eAD9083C756Cc2"
PoolAddress == "88e6a0c2ddd26feeb64f039a2c41296fcb3f5640"

EmptyObject == JObj([k \in {} |-> JNull])

\* A run explores the server with every shape of request ("server"), two
\* requests of one run side by side, with fewer shapes ("pair"), or the
\* numeric functions of the tools on their own ("numeric").
Scopes == {"server", "pair", "numeric"}

\* The params of a "pair" run that reach a registered tool.
PairToolParams ==
    {JObj([name |-> JStr("get_balance"),
           arguments |-> JObj([address |-> JStr(UserText), token_address |-> JStr(UsdcText)])]),
     JObj([name |-> JStr("get_token_price"),
           arguments |-> JObj([token_symbol |-> JStr("ETH")])]),
     JObj([name |-> JStr("swap_tokens"),
           arguments |-> JObj([from_token |-> JStr(WethText), to_token |-> JStr(UsdcText),
                               amount |-> JStr("1000000")])])}

\* The ids a request may carry: none, null, a number, a string.
Ids == {Absent, JNull, JNum(1), JStr("a")}

\* Arguments for the balance tool.
BalanceArgs ==
    {EmptyObject,
     JObj([address |-> JNum(5)]),
     JObj([address |-> JStr("invalid-address")]),
     JObj([address |-> JStr(UserText)]),
     JObj([address |-> JStr(UserText), token_address |-> JStr(UsdcText)]),
     JObj([address |-> JStr(UserText), token_address |-> JStr("invalid-address")]),
     JObj([address |-> JStr(UserText), token_address |-> JNum(5)]),
     JObj([address |-> JStr("invalid-address"), token_address |-> JStr(UsdcText)])}

\* Arguments for the price tool.
PriceArgs ==
    {EmptyObject,
     JObj([token_symbol |-> JStr("ETH")]),
     JObj([token_symbol |-> JStr("usdc")]),
     JObj([token_symbol |-> JStr("UNKNOWN")]),
     JObj([token_symbol |-> JStr("UNKNOWN"), token_address |-> JStr("invalid-address")]),
     JObj([token_symbol |-> JStr("UNKNOWN"), token_address |-> JStr(UsdcText)])}

\* Arguments for the swap tool.
SwapArgs ==
    {EmptyObject,
     JObj([from_token |-> JStr("invalid-address"), to_token |-> JStr(UsdcText),
           amount |-> JStr("1000000")]),
     JObj([from_token |-> JStr(WethText), amount |-> JStr("1000000")]),
     JObj([from_token |-> JStr(WethText), to_token |-> JStr("invalid-address"),
           amount |-> JStr("1000000")]),
     JObj([from_token |-> JStr(WethText), to_token |-> JStr(UsdcText)]),
     JObj([from_token |-> JStr(WethText), to_token |-> JStr(UsdcText),
           amount |-> JStr("lots")]),
     JObj([from_token |-> JStr(WethText), to_token |-> JStr(UsdcText),
           amount |-> JStr("1000000")]),
     JObj([from_token |-> JStr(WethText), to_token |-> JStr(UsdcText),
           amount |-> JStr("1000000"), fee |-> JNum(500),
           slippage_tolerance |-> JMilli(500)]),
     JObj([from_token |-> JStr(WethText), to_token |-> JStr(UsdcText),
           amount |-> JStr("1000000"), slippage_tolerance |-> JNum(150)])}

\* The params of a request that reaches a registered tool.
ToolParams ==
    {JObj([name |-> JStr("get_balance")]),
     JObj([name |-> JStr("get_balance"), arguments |-> JStr("text")])}
    \cup {JObj([name |-> JStr("get_balance"), arguments |-> a]) : a \in BalanceArgs}
    \cup {JObj([name |-> JStr("get_token_price"), arguments |-> a]) : a \in PriceArgs}
    \cup {JObj([name |-> JStr("swap_tokens"), arguments |-> a]) : a \in SwapArgs}

\* The params a request may carry.
ParamValues ==
    {Absent, JNull, JStr("text"),
     JObj([arguments |-> EmptyObject]),
     JObj([name |-> JNum(7)]),
     JObj([name |-> JStr("no_such_tool")]),
     JObj([name |-> JStr("no_such_tool"),
           arguments |-> JObj([address |-> JStr(UserText)])])}
    \cup ToolParams

Methods == {"tools/list", "tools/call", "foo"}

\* A JSON object with the fields of a request; an Absent field is not written.
RequestJson(m, p, i) ==
    LET fields == [jsonrpc |-> JStr("2.0"), method |-> JStr(m), params |-> p, id |-> i]
        written == {k \in DOMAIN fields : fields[k] # Absent}
    IN JObj([k \in written |-> fields[k]])

\* The lines that parse as a request.
ServerRequestLines ==
    {JsonLine(RequestJson(m, p, i)) : m \in Methods, p \in ParamValues, i \in Ids}
PairRequestLines ==
    {JsonLine(RequestJson(m, Absent, JNum(1))) : m \in Methods}
    \cup {JsonLine(RequestJson("tools/call", p, JNum(1))) : p \in PairToolParams}
RequestLines(sc) == IF sc = "pair" THEN PairRequestLines ELSE ServerRequestLines

\* The lines that are text and do not parse as a request.
UnparsableLines ==
    {GarbageLine, JsonLine(JNum(3)),
     JsonLine(JObj([jsonrpc |-> JStr("2.0"), id |-> JNum(1)])),
     JsonLine(JObj([method |-> JStr("tools/list"), id |-> JNum(1)])),
     JsonLine(JObj([jsonrpc |-> JStr("2.0"), method |-> JNum(4)]))}

\* What lines.next() may yield when the input holds a further line.
InputLines(sc) ==
    IF sc = "pair" THEN {GarbageLine} \cup RequestLines(sc)
    ELSE {BlankLine, InvalidUtf8Line} \cup UnparsableLines \cup RequestLines(sc)

\* The return data a contract may give to a call.
ReturnData(sc, call) ==
    CASE call.fn = "balanceOf" -> IF sc = "pair" THEN {Empty, Word(1500)}
                                  ELSE {Empty, Word(0), Word(1500)}
      [] call.fn = "decimals" -> IF sc = "pair" THEN {Word(6)}
                                 ELSE {Empty, Word(6), Word(18), Word(30)}
      [] call.fn = "symbol" -> {Empty, StrData("USDC")}
      [] call.fn = "getPool" -> {Empty, AddrWord(AddressZERO), AddrWord(PoolAddress)}
      [] call.fn = "slot0" ->
            IF sc = "pair" THEN {Slot0Data(U160Pow2(90))}
            ELSE {Empty, Slot0Data(U160Zero), Slot0Data(U160Pow2(90)), Slot0Data(U160Pow2(100))}
      [] call.fn = "token0" -> {Empty, AddrWord(USDC), AddrWord(WETH)}
      [] call.fn = "latestAnswer" -> {Empty, Word(3000)}
      [] call.fn = "quoteExactInputSingle" -> {Empty, QuoteData(1000, 21)}
      [] call.fn = "exactInputSingle" -> {Empty, Word(990)}

RpcError == Err(Msg("error sending request"))

\* What a remote call may return: an error, or data (a balance query
\* returns the number the provider has decoded).
Answers(sc, call) ==
    IF call.op = "eth_getBalance" THEN {RpcError, Ok(Word(0)), Ok(Word(1500))}
    ELSE {RpcError} \cup {Ok(d) : d \in ReturnData(sc, call)}

(* ------------------------------------------------------------------ *)
(* The server loop (server.rs run)                                     *)
(* ------------------------------------------------------------------ *)

Recorded(rq, a, l, p) == Some([req |-> rq, ans |-> a, line |-> l, process |-> p])

\* The state when run reaches its loop: the registry is built, nothing is
\* read or written.
InitCommon ==
    /\ pc = "read"
    /\ total \in 0..MaxLines
    /\ nread = 0
    /\ line = BlankLine
    /\ request = None
    /\ answers = <<>>
    /\ issued = <<>>
    /\ registry \in Registries
    /\ nreq = 0
    /\ nout = 0
    /\ out = None
    /\ first = None
    /\ run = 1
    /\ applied = None

Init == InitCommon /\ scope = "server"

InitPair == InitCommon /\ scope = "pair"

\* A loop that takes its next line while a remote call is pending.
LoopAtReadOrAwait == pc \in {"read", "await"}

\* The loop takes its next line only from the top of the loop: nothing of
\* the last request is pending.
LoopAtRead == pc = "read"

\* println!: the response is written as one line.
Println(response, n) ==
    /\ out' = Some([line |-> ToString_Response(response), for |-> n])
    /\ nout' = nout + 1

\* What run does with handle_request's progress r for request number n, rq,
\* after the answers a: wait for the next remote call, write the response
\* and go back to reading, or die of the panic.
Settle(r, n, rq, a, calls) ==
    CASE IsAwait(r) ->
            /\ pc' = "await"
            /\ issued' = Append(calls, r.call)
            /\ out' = None
            /\ UNCHANGED <<nout, first>>
      [] IsDone(r) ->
            /\ pc' = "loop"
            /\ issued' = calls
            /\ Println(r.response, n)
            /\ first' = IF scope = "pair" /\ first = None
                        THEN Recorded(rq, a, ToString_Response(r.response), run)
                        ELSE first
      [] OTHER ->
            /\ pc' = "crashed"
            /\ issued' = calls
            /\ out' = None
            /\ UNCHANGED <<nout, first>>

\* One turn of the loop up to its first remote call: lines.next() yields a
\* line; a read error ends the loop, a blank line and a line that does not
\* parse are skipped, a request is handled.
ReadLine ==
    /\ LoopAtRead
    /\ nread < total
    /\ \E l \in InputLines(scope) :
        /\ line' = l
        /\ nread' = nread + 1
        /\ answers' = <<>>
        /\ UNCHANGED <<total, registry, scope, run, applied>>
        /\ IF l = InvalidUtf8Line
           THEN /\ pc' = "done"
                /\ request' = None /\ issued' = <<>> /\ out' = None
                /\ UNCHANGED <<nreq, nout, first>>
           ELSE IF l = BlankLine \/ IsErr(ParseRequest(l))
           THEN /\ pc' = "loop"
                /\ request' = None /\ issued' = <<>> /\ out' = None
                /\ UNCHANGED <<nreq, nout, first>>
           ELSE LET rq == ParseRequest(l).val IN
                /\ request' = Some(rq)
                /\ nreq' = nreq + 1
                /\ Settle(HandleRequest(rq, registry, <<>>), nreq + 1, rq, <<>>, <<>>)

\* The end of the loop body: its locals (the line, the request, the
\* response) are dropped and the loop is back at lines.next().
EndOfTurn ==
    /\ pc = "loop"
    /\ pc' = "read"
    /\ line' = BlankLine
    /\ request' = None
    /\ answers' = <<>>
    /\ issued' = <<>>
    /\ out' = None
    /\ UNCHANGED <<total, nread, registry, nreq, nout, scope, first, run, applied>>

\* lines.next() yields None: the input has ended and run returns Ok.
EndOfInput ==
    /\ LoopAtRead
    /\ nread = total
    /\ pc' = "done"
    /\ UNCHANGED <<total, nread, line, request, answers, issued, registry, nreq, nout, out, scope,
                   first, run, applied>>

\* The remote call the tool awaits returns; the tool runs on to its next
\* remote call or to its end.
RemoteReturn ==
    /\ pc = "await"
    /\ \E a \in Answers(scope, issued[Len(issued)]) :
        /\ answers' = Append(answers, a)
        /\ UNCHANGED <<total, nread, line, request, registry, nreq, scope, run, applied>>
        /\ Settle(HandleRequest(request.val, registry, Append(answers, a)), nreq, request.val,
                  Append(answers, a), issued)

Next == ReadLine \/ RemoteReturn \/ EndOfTurn \/ EndOfInput

Spec == Init /\ [][Next]_vars

\* The loop under its scheduling: the runtime drives run while it has a step
\* to take (a line or the end of the input to read, a response to write),
\* and every remote call that is pending returns, with a value or an error.
Fairness ==
    /\ WF_vars(ReadLine \/ EndOfTurn \/ EndOfInput)
    /\ WF_vars(RemoteReturn)

SpecFair == Spec /\ Fairness

\* The server process has ended and is started again on a new input: run
\* builds the registry anew (a new HashMap, with the iteration order of the
\* new process) and enters its loop.  Nothing of the first process is left
\* but the record of the first request it served.
Restart ==
    /\ pc \in {"done", "crashed"}
    /\ run = 1
    /\ IsSome(first)
    /\ run' = 2
    /\ pc' = "read"
    /\ total' \in 1..MaxLines
    /\ nread' = 0
    /\ line' = BlankLine
    /\ request' = None
    /\ answers' = <<>>
    /\ issued' = <<>>
    /\ registry' \in Registries
    /\ nreq' = 0
    /\ nout' = 0
    /\ out' = None
    /\ UNCHANGED <<scope, first, applied>>

NextPair == Next \/ Restart

\* Two requests side by side: the first request a process serves, and a
\* later request of that process or of a second process.
SpecPair == InitPair /\ [][NextPair]_vars

(* ------------------------------------------------------------------ *)
(* The numeric functions on their own                                  *)
(* ------------------------------------------------------------------ *)

\* The inputs: raw integers m * 10^k up to and beyond the mantissa, the
\* decimals a token may report, the quotes and the slippages, and the
\* square-root prices 0 and 2^k of a uint160.
MaxZeros == 30
MaxDecimals == 40
MaxQuote == 1200
Uint160Bits == 160
RawMantissas == {0, 1, 15, 1500, 792281625, 792281626}
RawIntegers == {Sci(m, k) : m \in RawMantissas, k \in 0..MaxZeros}
QuotedAmounts == {Sci(n, 0) : n \in 0..MaxQuote} \cup {Sci(8, 28), Sci(1, 29)}
SlippageMillis == {0, 500, 1000, 100000, 150000}
SqrtPrices == {U160Zero} \cup {U160Pow2(k) : k \in 0..(Uint160Bits - 1)}

\* The arguments of a swap with the default slippage, and with 0.5 written.
NumericSwapArgs ==
    {JObj([from_token |-> JStr(WethText), to_token |-> JStr(UsdcText),
           amount |-> JStr("1000000")]),
     JObj([from_token |-> JStr(WethText), to_token |-> JStr(UsdcText),
           amount |-> JStr("1000000"), slippage_tolerance |-> JMilli(500)])}

InitNumeric ==
    /\ pc = "read"
    /\ total = 0
    /\ nread = 0
    /\ line = BlankLine
    /\ request = None
    /\ answers = <<>>
    /\ issued = <<>>
    /\ registry = [map |-> RegisteredTools, order |-> <<>>]
    /\ nreq = 0
    /\ nout = 0
    /\ out = None
    /\ first = None
    /\ run = 1
    /\ applied = None
    /\ scope = "numeric"

\* What a run leaves alone when it applies a numeric function.
server_vars == <<pc, total, nread, line, request, answers, issued, registry, nreq, nout, out, scope, first, run>>

\* format_units is applied to a raw integer and a number of decimals.
ApplyFormatUnits ==
    /\ scope = "numeric" /\ applied = None
    /\ \E v \in RawIntegers, d \in 0..MaxDecimals :
          applied' = Some([fn |-> "format_units", value |-> v, decimals |-> d,
                           result |-> FormatUnits(v, d)])
    /\ UNCHANGED server_vars

\* Step 2 of the swap tool is applied to a quoted amount and a slippage.
ApplyMinimumOutput ==
    /\ scope = "numeric" /\ applied = None
    /\ \E x \in QuotedAmounts, s \in SlippageMillis :
          applied' = Some([fn |-> "minimum_output", amount_out |-> x, slippage_milli |-> s,
                           result |-> MinimumOutput(x, s)])
    /\ UNCHANGED server_vars

\* The swap tool is run on a quote that decodes and a router simulation.
ApplySwap ==
    /\ scope = "numeric" /\ applied = None
    /\ \E a \in NumericSwapArgs, e \in 0..MaxQuote :
          applied' = Some([fn |-> "swap_tokens", args |-> a, estimated |-> e,
                           result |-> SwapCall(a, <<Ok(QuoteData(e, 21)), Ok(Word(e))>>)])
    /\ UNCHANGED server_vars

\* The square-root price of a pool is converted to the ratio.
ApplySqrtPrice ==
    /\ scope = "numeric" /\ applied = None
    /\ \E sq \in SqrtPrices :
          applied' = Some([fn |-> "sqrt_price", sqrt_price_x96 |-> sq,
                           result |-> SqrtPriceToRatio(sq)])
    /\ UNCHANGED server_vars

NextNumeric == ApplyFormatUnits \/ ApplyMinimumOutput \/ ApplySwap \/ ApplySqrtPrice

SpecNumeric == InitNumeric /\ [][NextNumeric]_vars

(* ------------------------------------------------------------------ *)
(* Properties of the dispatcher and of the loop                        *)
(* ------------------------------------------------------------------ *)

\* The fields of the line written in this turn, and of the request line.
Written == out.val.line.o
Asked == line.v.o
HasResponse == IsSome(out)
\* The id the request line carries, null when it carries none.
AskedId == IF "id" \in DOMAIN Asked THEN Asked.id ELSE JNull
\* The name the request line gives in its params, if it gives a string.
AskedName == IF "params" \in DOMAIN Asked THEN GetStr(Asked.params, "name") ELSE None
\* The arguments the request line gives, {} when it gives none.
AskedArguments ==
    IF "params" \in DOMAIN Asked /\ IsSome(Get(Asked.params, "arguments"))
    THEN Get(Asked.params, "arguments").val ELSE EmptyObject
\* An error object as it is written.
WrittenError(code, message) ==
    JObj([code |-> JNum(code), message |-> JMsg(message), data |-> JNull])
\* The turn is over and has served a request.
Served == pc = "loop" /\ IsSome(request)

\* C1: every response written has exactly one of result and error: never
\* both, never neither.
C1_ResultXorError ==
    HasResponse => ((Written.result # JNull) # (Written.error # JNull))

\* C1 witness: a tool call that succeeded after remote calls has been
\* answered with a result.
C1_Witness ==
    /\ HasResponse
    /\ request.val.method = "tools/call"
    /\ Len(answers) >= 2
    /\ Written.result # JNull

\* C2: every response carries the id of the request line it answers,
\* unchanged, and null when the line has no id, whatever was served before.
C2_IdEchoed == HasResponse => Written.id = AskedId

\* C2 witness: the second request of a run, with a string id, has been
\* answered with an execution failure carrying that id.
C2_Witness ==
    /\ HasResponse
    /\ nreq = 2
    /\ AskedId = JStr("a")
    /\ Written.error # JNull
    /\ Written.error.o.code = JNum(-32603)
    /\ Written.id = JStr("a")

\* C3: exactly one response is written for each line that parses as a
\* request and none for a blank or unparsable line, and the loop does not
\* stop before the end of the input.
C3_OneResponsePerRequestLine ==
    /\ pc \in {"loop", "read", "done", "crashed"} => nout = nreq
    /\ (pc = "loop" /\ request = None) => out = None
    /\ pc \in {"done", "crashed"} => nread = total

\* C4: a line is read only when every request read before has its response
\* written and none of its remote calls is pending; a response is written
\* only for the request read last, after every remote call issued for it
\* has returned; so the k-th line written answers the k-th request.
C4_OneAtATime ==
    [][ /\ (nread' # nread =>
               pc = "read" /\ nout = nreq /\ Len(answers) = Len(issued))
        /\ (nout' # nout =>
               /\ nout' = nout + 1
               /\ nreq' = nout'
               /\ out'.val.for = nout'
               /\ Len(answers') = Len(issued'))
        /\ (pc' = "await" => nreq' = nout' + 1 /\ Len(issued') = Len(answers') + 1)
      ]_vars

\* C4 witness: the second request has been answered after two remote calls,
\* the first request having been answered before.
C4_Witness ==
    /\ HasResponse
    /\ nout = 2
    /\ out.val.for = 2
    /\ Len(issued) >= 2
    /\ Len(answers) = Len(issued)

\* C5: a request whose method is neither tools/list nor tools/call is
\* answered with error -32601 and its id, without any remote call and
\* without a tool's result or failure.
C5_UnknownMethod ==
    (IsSome(request) /\ request.val.method \notin {"tools/list", "tools/call"}) =>
        /\ Served
        /\ HasResponse
        /\ Written.error = WrittenError(-32601, Msg("Method not found"))
        /\ Written.result = JNull
        /\ Written.id = AskedId
        /\ issued = <<>>

\* C5 witness: a request with method foo that names a registered tool in its
\* params has been answered.
C5_Witness ==
    /\ Served
    /\ request.val.method = "foo"
    /\ AskedName = Some("get_balance")
    /\ AskedId = JNum(1)
    /\ HasResponse

\* C6: a tools/call request with no params, or with params that give no
\* string name, is answered with error -32602, and no tool runs.
C6_MissingName ==
    (IsSome(request) /\ request.val.method = "tools/call" /\ ~IsSome(AskedName)) =>
        /\ Served
        /\ HasResponse
        /\ Written.error # JNull
        /\ Written.error.o.code = JNum(-32602)
        /\ Written.result = JNull
        /\ issued = <<>>

\* C6 witness: a tools/call request whose name is a number has been answered.
C6_Witness ==
    /\ Served
    /\ request.val.method = "tools/call"
    /\ "params" \in DOMAIN Asked
    /\ Get(Asked.params, "name") = Some(JNum(7))
    /\ HasResponse

\* C7: a tools/call request whose name is no key of the registry is
\* answered with the tool-not-found error -32601, and no remote call is
\* issued.
C7_UnknownTool ==
    (/\ IsSome(request) /\ request.val.method = "tools/call"
     /\ IsSome(AskedName) /\ AskedName.val \notin DOMAIN registry.map) =>
        /\ Served
        /\ HasResponse
        /\ Written.error = WrittenError(-32601, <<"Tool not found: ", AskedName.val>>)
        /\ Written.result = JNull
        /\ issued = <<>>

\* C7 witness: a call of a tool that is not registered, with arguments a
\* registered tool would take, has been answered.
C7_Witness ==
    /\ Served
    /\ request.val.method = "tools/call"
    /\ AskedName = Some("no_such_tool")
    /\ AskedArguments # EmptyObject
    /\ HasResponse

\* The result of the registered tool the request line names, on the
\* answers returned.
ToolOutcome == ToolCall(registry.map[AskedName.val], AskedArguments, answers)
CallsRegisteredTool ==
    /\ IsSome(request) /\ request.val.method = "tools/call"
    /\ IsSome(AskedName) /\ AskedName.val \in DOMAIN registry.map

\* C8: when the tool's execution ends in a failure, the response is the
\* error -32603 whose message is the tool's message behind a prefix, with no
\* result; when it ends in success, the response is a result holding the
\* value as data and the text of that same value, with no error.
C8_ToolOutcomeWrapped ==
    (CallsRegisteredTool /\ pc = "loop") =>
        /\ HasResponse
        /\ IsErr(ToolOutcome) =>
              /\ Written.error =
                    WrittenError(-32603, <<"Tool execution failed: ">> \o ToolOutcome.msg)
              /\ Written.result = JNull
        /\ IsOk(ToolOutcome) =>
              /\ Written.error = JNull
              /\ Written.result.j = "object"
              /\ DOMAIN Written.result.o = {"content", "data"}
              /\ Written.result.o.data = ToolOutcome.val
              /\ Written.result.o.content =
                    JArr(<<JObj([type |-> JStr("text"),
                                 text |-> ToStringPretty(Written.result.o.data)])>>)
        /\ IsErr(ToolOutcome) \/ IsOk(ToolOutcome)

\* C8 witness: a tool has failed on its third remote call, after two that
\* succeeded, and the failure has been answered.
C8_Witness ==
    /\ CallsRegisteredTool
    /\ pc = "loop"
    /\ Len(answers) = 3
    /\ IsOk(answers[1]) /\ IsOk(answers[2]) /\ IsErr(answers[3])
    /\ HasResponse

\* The names listed by the response to tools/list, in order.
ListedNames == [i \in DOMAIN Written.result.o.tools.a |-> Written.result.o.tools.a[i].o.name]
ThreeTools == {"get_balance", "get_token_price", "swap_tokens"}

\* C9: the registry always holds the three tools registered at startup, each
\* under its own name; no step changes it; and tools/list returns exactly
\* one descriptor for each.
C9_RegistryFixed ==
    /\ [](/\ DOMAIN registry.map = ThreeTools
          /\ \A k \in ThreeTools : ToolName(registry.map[k]) = k
          /\ \A k, m \in ThreeTools : k # m => registry.map[k] # registry.map[m]
          /\ (Served /\ request.val.method = "tools/list") =>
                /\ HasResponse
                /\ Written.error = JNull
                /\ Len(ListedNames) = 3
                /\ \A k \in ThreeTools :
                      Cardinality({i \in DOMAIN ListedNames : ListedNames[i] = JStr(k)}) = 1
                /\ \A i \in DOMAIN ListedNames :
                      LET t == registry.map[ListedNames[i].s]
                      IN Written.result.o.tools.a[i] =
                            JObj([name |-> JStr(ToolName(t)),
                                  description |-> JStr(ToolDescription(t)),
                                  inputSchema |-> ToolSchema(t)]))
    /\ [][registry' = registry]_vars

\* C9 witness: tools/list has been answered as the second request, after a
\* tool call that issued remote calls was served.
C9_Witness ==
    /\ Served
    /\ request.val.method = "tools/list"
    /\ nreq = 2
    /\ HasResponse

\* The request being answered is the first request served again, and its
\* remote calls have returned what they returned then.
SameRequestSameAnswers ==
    /\ Served /\ HasResponse /\ IsSome(first)
    /\ request.val = first.val.req
    /\ answers = first.val.ans

\* Two tools/list responses that differ at most in the order of their
\* descriptors.
SameUpToListOrder(l1, l2) ==
    /\ l1.o.result # JNull /\ l2.o.result # JNull
    /\ [l1.o EXCEPT !.result = JNull] = [l2.o EXCEPT !.result = JNull]
    /\ DOMAIN l1.o.result.o = {"tools"} /\ DOMAIN l2.o.result.o = {"tools"}
    /\ Len(l1.o.result.o.tools.a) = Len(l2.o.result.o.tools.a)
    /\ \A d \in {l1.o.result.o.tools.a[i] : i \in DOMAIN l1.o.result.o.tools.a}
              \cup {l2.o.result.o.tools.a[i] : i \in DOMAIN l2.o.result.o.tools.a} :
          Cardinality({i \in DOMAIN l1.o.result.o.tools.a : l1.o.result.o.tools.a[i] = d})
          = Cardinality({i \in DOMAIN l2.o.result.o.tools.a : l2.o.result.o.tools.a[i] = d})

CallsTool(name) == CallsRegisteredTool /\ AskedName.val = name
\* The value the tool returned, as the response carries it.
ResultData == Written.result.o.data.o
\* The response in hand is a result.
HasResult == HasResponse /\ Written.result # JNull
\* The response in hand is the execution failure with the message e.
IsExecutionFailure(e) ==
    /\ HasResponse
    /\ Written.result = JNull
    /\ Written.error = WrittenError(-32603, <<"Tool execution failed: ">> \o e)
\* The result in hand carries the router transaction built for the call c.
HasPayloadOf(c) ==
    /\ HasResult
    /\ "transaction" \in DOMAIN ResultData
    /\ ResultData.transaction.o.to = JStr("0xE592427A0AEce92De3Edee1F18E0157C05861564")
    /\ ResultData.transaction.o.data = JHex(c.args)
    /\ ResultData.transaction.o.value = JStr("0")

\* C11: every operation issued to the chain client, for any request, is a
\* read-only contract call or a native balance query, the latter only by the
\* balance tool; no transaction is ever sent.
C11_NoTransactionSent ==
    \A i \in DOMAIN issued :
        /\ issued[i].op \in {"eth_call", "eth_getBalance"}
        /\ issued[i].op = "eth_getBalance" => CallsTool("get_balance")

\* C11 witness: the swap tool has issued its quote and its router
\* simulation, the latter with the signer as sender, and has been answered.
C11_Witness ==
    /\ CallsTool("swap_tokens")
    /\ pc = "loop"
    /\ Len(issued) = 2
    /\ issued[2].to = RouterAddress
    /\ issued[2].from = SignerAddress
    /\ HasResult

\* C12: when the quoter call returns data that does not decode, the swap
\* tool goes on to the router simulation and returns a result with estimated
\* output 0, gas estimate 0, the transaction payload and a non-null
\* quoter_decode_error; when the data decodes, quoter_decode_error is null.
C12_QuoteDecodeDegrades ==
    (CallsTool("swap_tokens") /\ Len(answers) >= 1 /\ IsOk(answers[1])) =>
        IF IsErr(DecodeQuote(answers[1].val))
        THEN /\ pc \in {"await", "loop"}
             /\ Len(issued) = 2
             /\ issued[2].fn = "exactInputSingle"
             /\ issued[2].args.amountOutMinimum = 0
             /\ pc = "loop" =>
                   /\ HasPayloadOf(issued[2])
                   /\ Written.error = JNull
                   /\ ResultData.estimated_output = JStr("0")
                   /\ ResultData.minimum_output = JStr("0")
                   /\ ResultData.gas_estimate_simulation = JStr("0")
                   /\ ResultData.quoter_decode_error # JNull
        ELSE (pc = "loop" /\ HasResult) => ResultData.quoter_decode_error = JNull

\* C12 witness: the quoter has returned no data at all, the router
\* simulation has returned, and the swap tool has been answered, for a
\* request that sets a slippage above 100 percent.
C12_Witness ==
    /\ CallsTool("swap_tokens")
    /\ pc = "loop"
    /\ Len(answers) = 2
    /\ answers[1] = Ok(Empty)
    /\ SlippageOf(AskedArguments) > HundredPercentMilli
    /\ HasResponse

\* C13: once the router simulation has returned, with an error or with
\* data, the swap tool returns a result that carries the transaction
\* payload; its router_call_simulation has status error and the error's
\* message when the call failed, and status ok when it succeeded.
C13_RouterSimulationInformational ==
    (CallsTool("swap_tokens") /\ Len(answers) = 2) =>
        /\ pc = "loop"
        /\ HasPayloadOf(issued[2])
        /\ Written.error = JNull
        /\ IF IsErr(answers[2])
           THEN ResultData.router_call_simulation =
                    JObj([status |-> JStr("error"), message |-> JMsg(answers[2].msg)])
           ELSE ResultData.router_call_simulation.o.status = JStr("ok")

\* C13 witness: the quote has decoded, the router simulation has failed, and
\* the swap tool has been answered.
C13_Witness ==
    /\ CallsTool("swap_tokens")
    /\ pc = "loop"
    /\ Len(answers) = 2
    /\ IsOk(answers[1]) /\ IsOk(DecodeQuote(answers[1].val))
    /\ IsErr(answers[2])
    /\ HasResponse

\* The swap tool is called with well-formed arguments: two addresses, an
\* amount in digits, and a slippage between 0 and 100 percent.
WellFormedSwap ==
    /\ CallsTool("swap_tokens")
    /\ IsAwait(SwapCall(AskedArguments, <<>>))
    /\ SlippageOf(AskedArguments) \in 0..HundredPercentMilli

\* C14, as stated: for well-formed arguments the swap tool returns the
\* router transaction payload whether the quoter's answer is a quote, data
\* that does not decode, or an error of the remote call.
C14_PayloadWhateverTheQuote ==
    (WellFormedSwap /\ pc = "loop") => (HasResult /\ "transaction" \in DOMAIN ResultData)

\* C14, amended: for well-formed arguments the swap tool returns the router
\* transaction payload when the quoter's return data does not decode; when
\* the quoter remote call itself returns an error the tool fails with that
\* error, issues no router call and returns no payload.
C14_PayloadUnlessQuoterCallFails ==
    (WellFormedSwap /\ pc = "loop") =>
        IF IsErr(answers[1])
        THEN /\ IsExecutionFailure(answers[1].msg)
             /\ Len(issued) = 1
        ELSE IsErr(DecodeQuote(answers[1].val)) => HasPayloadOf(issued[2])

\* C14 witness: the quoter remote call has returned an error for a swap with
\* well-formed arguments, and the request has been answered.
C14_Witness ==
    /\ WellFormedSwap
    /\ pc = "loop"
    /\ IsErr(answers[1])
    /\ HasResponse

(* ------------------------------------------------------------------ *)
(* Properties of the balance tool and of the price tool                *)
(* ------------------------------------------------------------------ *)

\* The text an argument gives, if it gives a string.
ArgText(k) == GetStr(AskedArguments, k)
\* The text is no well-formed address of 20 bytes in hex.
NoAddress(text) == ~IsSome(HexDigits(text))
\* The i-th remote call of the request has failed: the call returned an
\* error, or return data that cannot be decoded (none at all).
CallFailed(i) == IsErr(answers[i]) \/ answers[i].val = Empty
\* The message of the failure of the i-th remote call.
FailureOf(i) == IF IsErr(answers[i]) THEN answers[i].msg ELSE DecodeError
\* The response in hand is an execution failure.
IsFailure ==
    /\ HasResponse
    /\ Written.result = JNull
    /\ Written.error # JNull
    /\ Written.error.o.code = JNum(-32603)
\* The function names of the calls issued so far, in order.
IssuedFns == [i \in DOMAIN issued |-> issued[i].fn]
\* A sequence is the beginning of another.
IsPrefix(p, q) == Len(p) <= Len(q) /\ p = SubSeq(q, 1, Len(p))

\* The balance tool is called with a valid address and a valid token address.
TokenBalanceRequest ==
    /\ CallsTool("get_balance")
    /\ IsSome(ArgText("address")) /\ ~NoAddress(ArgText("address").val)
    /\ IsSome(ArgText("token_address")) /\ ~NoAddress(ArgText("token_address").val)

\* The three calls of the token branch, for the arguments in hand.
TokenBalanceCalls ==
    LET token == HexDigits(ArgText("token_address").val).val
        account == HexDigits(ArgText("address").val).val
    IN << [op |-> "eth_call", to |-> token, fn |-> "balanceOf", args |-> [account |-> account]],
          [op |-> "eth_call", to |-> token, fn |-> "decimals", args |-> NoArgs],
          [op |-> "eth_call", to |-> token, fn |-> "symbol", args |-> NoArgs] >>

\* C15: with a token address the balance tool issues balanceOf, decimals and
\* symbol in this order, each only after the one before has succeeded; when
\* one of them fails no later call is issued and the response is a failure
\* with no result; a result is returned only after all three, and it is whole.
C15_ThreeCallsAllOrNothing ==
    (TokenBalanceRequest /\ pc \in {"await", "loop"}) =>
        /\ Len(issued) >= 1
        /\ IsPrefix(issued, TokenBalanceCalls)
        /\ \A i \in DOMAIN answers : i < Len(issued) => ~CallFailed(i)
        /\ \A i \in DOMAIN answers :
              CallFailed(i) =>
                 /\ Len(issued) = i
                 /\ pc = "loop"
                 /\ IsExecutionFailure(FailureOf(i))
        /\ (pc = "loop" /\ HasResult) =>
              /\ issued = TokenBalanceCalls
              /\ \A i \in 1..3 : ~CallFailed(i)
              /\ DOMAIN ResultData = {"balance", "raw_balance", "symbol", "decimals"}
        /\ pc = "loop" => (HasResult \/ IsFailure)

\* C15 witness: balanceOf and decimals have succeeded, symbol has returned
\* data that does not decode, and the request has been answered.
C15_Witness ==
    /\ TokenBalanceRequest
    /\ pc = "loop"
    /\ Len(answers) = 3
    /\ ~CallFailed(1) /\ ~CallFailed(2)
    /\ answers[3] = Ok(Empty)
    /\ HasResponse

NativeBalanceRequest ==
    /\ CallsTool("get_balance")
    /\ IsSome(ArgText("address")) /\ ~NoAddress(ArgText("address").val)
    /\ ~IsSome(ArgText("token_address"))

\* C17: with a valid address and no token_address the balance tool issues
\* one native balance query for that address and nothing else; when the
\* query succeeds the result has symbol ETH, decimals 18, a balance, and the
\* queried value as raw_balance; when it fails the response is a failure.
C17_NativeBalance ==
    (NativeBalanceRequest /\ pc \in {"await", "loop"}) =>
        /\ issued = << [op |-> "eth_getBalance",
                        to |-> HexDigits(ArgText("address").val).val,
                        fn |-> "", args |-> NoArgs] >>
        /\ pc = "loop" =>
              IF IsOk(answers[1])
              THEN /\ HasResult
                   /\ Written.error = JNull
                   /\ DOMAIN ResultData = {"balance", "raw_balance", "symbol", "decimals"}
                   /\ ResultData.symbol = JStr("ETH")
                   /\ ResultData.decimals = JNum(18)
                   /\ ResultData.raw_balance = JStr(ToString(answers[1].val.n))
              ELSE IsExecutionFailure(answers[1].msg)

\* C17 witness: the native balance query has returned 1500 and the request
\* has been answered.
C17_Witness ==
    /\ NativeBalanceRequest
    /\ pc = "loop"
    /\ answers = <<Ok(Word(1500))>>
    /\ "token_address" \notin DOMAIN AskedArguments.o
    /\ HasResponse

\* The symbols the price tool knows without an address.
KnownSymbols == {"ETH", "USDC", "WETH", "WBTC"}

\* C18: the price tool called with a symbol that is neither the native
\* asset nor in the built-in table, and with no token address, is answered
\* with a failure and no price, and no remote call is issued.
C18_UnknownSymbolFails ==
    (/\ CallsTool("get_token_price")
     /\ IsSome(ArgText("token_symbol"))
     /\ ToUppercase(ArgText("token_symbol").val) \notin KnownSymbols
     /\ ~IsSome(ArgText("token_address"))) =>
        /\ pc = "loop"
        /\ issued = <<>>
        /\ answers = <<>>
        /\ IsExecutionFailure(Msg("Unknown token symbol. Please provide token_address."))

\* C18 witness: a price request for the symbol UNKNOWN without an address
\* has been answered.
C18_Witness ==
    /\ CallsTool("get_token_price")
    /\ pc = "loop"
    /\ ArgText("token_symbol") = Some("UNKNOWN")
    /\ "token_address" \notin DOMAIN AskedArguments.o
    /\ HasResponse

\* C19: when getPool returns the zero address the price tool is answered
\* with a failure and issues no further remote call.
C19_NoPoolFails ==
    (/\ CallsTool("get_token_price")
     /\ Len(answers) >= 1
     /\ issued[1].fn = "getPool"
     /\ answers[1] = Ok(AddrWord("0000000000000000000000000000000000000000"))) =>
        /\ pc = "loop"
        /\ Len(issued) = 1
        /\ Len(answers) = 1
        /\ IsFailure

\* C19 witness: getPool has returned the zero address for a token given by
\* its address, and the request has been answered.
C19_Witness ==
    /\ CallsTool("get_token_price")
    /\ pc = "loop"
    /\ IsSome(ArgText("token_address"))
    /\ Len(issued) = 1
    /\ issued[1].fn = "getPool"
    /\ answers = <<Ok(AddrWord("0000000000000000000000000000000000000000"))>>
    /\ HasResponse

\* The calls of the price tool, in order: through the pool, or the oracle
\* alone for the native asset.
PoolPriceFns == <<"getPool", "slot0", "token0", "decimals", "decimals", "latestAnswer", "decimals">>
OraclePriceFns == <<"latestAnswer", "decimals">>

\* C20: the price tool issues the calls of its sequence in order; when one
\* of them fails (the call, or the decoding of what it returned) no later
\* call is issued and the response is a failure with no result; a result
\* is returned only after the whole sequence.
C20_PriceAllOrNothing ==
    (CallsTool("get_token_price") /\ pc \in {"await", "loop", "crashed"} /\ Len(issued) >= 1) =>
        /\ IsPrefix(IssuedFns, IF issued[1].fn = "getPool" THEN PoolPriceFns ELSE OraclePriceFns)
        /\ Len(issued) >= 5 => (issued[5].to = WETH /\ issued[3].to = issued[2].to)
        /\ \A i \in DOMAIN answers :
              CallFailed(i) =>
                 /\ Len(issued) = i
                 /\ pc = "loop"
                 /\ IsExecutionFailure(FailureOf(i))
        /\ (pc = "loop" /\ HasResult) =>
              /\ IssuedFns \in {PoolPriceFns, OraclePriceFns}
              /\ Len(answers) = Len(issued)
              /\ \A i \in DOMAIN answers : ~CallFailed(i)

\* C20 witness: the five calls about the pool have succeeded, the oracle's
\* latestAnswer has failed, and the request has been answered.
C20_Witness ==
    /\ CallsTool("get_token_price")
    /\ pc = "loop"
    /\ Len(answers) = 6
    /\ \A i \in 1..5 : ~CallFailed(i)
    /\ IsErr(answers[6])
    /\ HasResponse

(* ------------------------------------------------------------------ *)
(* Properties of the price derivation                                  *)
(* ------------------------------------------------------------------ *)

\* The price tool has answered with a price derived from a pool: the seven
\* calls have been issued and answered.
PoolPriced ==
    /\ CallsTool("get_token_price")
    /\ pc = "loop"
    /\ HasResult
    /\ Len(issued) = 7
    /\ issued[1].fn = "getPool"
\* What the answers of that request say: the queried token, the pool's
\* first-ordered asset, the decimals of both, the raw ratio of the pool and
\* the oracle's price.
PoolToken == issued[1].args.tokenA
PoolToken0 == answers[3].val.a
TokenDecimals == answers[4].val.n
WethDecimals == answers[5].val.n
RawSqrtRatio ==
    IF answers[2].val.sqrtPriceX96.zero THEN PZero
    ELSE PMul(PNum(1, answers[2].val.sqrtPriceX96.pow2, 0), PNum(1, -96, 0))
RawRatio == PMul(RawSqrtRatio, RawSqrtRatio)
OraclePrice == PNum(answers[6].val.n, 0, -answers[7].val.n)
\* The pool is a pool of the queried token and the wrapped-native asset.
PoolOfTheToken == PoolToken # WETH /\ PoolToken0 \in {PoolToken, WETH}
\* The decimals of the pool's first-ordered and second-ordered asset.
Decimals0 == IF PoolToken0 = PoolToken THEN TokenDecimals ELSE WethDecimals
Decimals1 == IF PoolToken0 = PoolToken THEN WethDecimals ELSE TokenDecimals

\* C21: the price tool multiplies the raw ratio of the pool by
\* 10^(decimals0 - decimals1), the decimals taken in the order of the pool,
\* when the queried token is the first-ordered asset and when the
\* wrapped-native asset is.
C21_ExponentFollowsPoolOrder ==
    (PoolPriced /\ PoolOfTheToken) =>
        DecimalAdjust(TokenDecimals, WethDecimals) = PricePow10Decimal(Decimals0 - Decimals1)

\* The ratio the tool has adjusted for the decimals.
AdjustedRatio == PMul(RawRatio, DecimalAdjust(TokenDecimals, WethDecimals).val)
\* The native-denominated price the claim describes.
NativePrice == IF PoolToken0 = WETH THEN PRecip(AdjustedRatio) ELSE AdjustedRatio

\* C22: the native-denominated price of a pool-derived result is the
\* reciprocal of the adjusted ratio exactly when the wrapped-native asset is
\* the first-ordered asset of the pool, and the adjusted ratio otherwise; the
\* USD price is that price times the oracle's price of the native asset.
C22_ReciprocalWhenWethFirst ==
    (PoolPriced /\ PoolOfTheToken) =>
        /\ ResultData.price_eth = JPrice(NativePrice)
        /\ ResultData.price_usd = JPrice(PMul(NativePrice, OraclePrice))

\* C22 witness: a price has been derived from a pool whose first-ordered
\* asset is the wrapped-native asset, the decimals being 6 and 18.
C22_Witness ==
    /\ PoolPriced /\ PoolOfTheToken
    /\ PoolToken0 = WETH
    /\ TokenDecimals = 6 /\ WethDecimals = 18

\* C23: the token symbol is required: a call of the price tool whose
\* arguments carry no token_symbol string is answered with a failure and
\* never with a price.
C23_SymbolRequired ==
    (/\ CallsTool("get_token_price")
     /\ ~IsSome(ArgText("token_symbol"))
     /\ pc = "loop") =>
        IsFailure

(* ------------------------------------------------------------------ *)
(* Properties of the numeric functions                                 *)
(* ------------------------------------------------------------------ *)

\* The numeric function fn has been applied.
Applied(fn) == IsSome(applied) /\ applied.val.fn = fn
\* The swap tool has reported a minimum for the estimate e > 0.
SwapReported == Applied("swap_tokens") /\ applied.val.estimated > 0 /\ IsOk(applied.val.result)
\* The minimum reported is the integer x.
ReportedMinimum(x) == applied.val.result.val.o.minimum_output = JStr(ToString(x))
\* x / e lies in [0.994, 1.0].
RatioInBand(x, e) == 994 * e <= 1000 * x /\ x <= e

\* C24: with the slippage 0.5, for every estimate E > 0 that decodes, the
\* minimum the swap tool reports, divided by E, lies in [0.994, 1.0].
C24_RatioForEveryQuote ==
    SwapReported =>
        \E x \in 0..applied.val.estimated :
            ReportedMinimum(x) /\ RatioInBand(x, applied.val.estimated)

\* C24, amended: the ratio lies in [0.994, 1.0] for every estimate of at
\* least 1000; for every estimate E > 0 the minimum reported is at most E
\* and more than 0.995 * E - 1.
C24_RatioFromThousand ==
    SwapReported =>
        LET e == applied.val.estimated IN
        \E x \in 0..e :
            /\ ReportedMinimum(x)
            /\ 995 * e - 1000 < 1000 * x
            /\ e >= 1000 => RatioInBand(x, e)

\* C24 witness: the estimate 1000 has been reported with the minimum 995.
C24_Witness ==
    /\ SwapReported
    /\ applied.val.estimated = 1000
    /\ applied.val.result.val.o.estimated_output = JStr("1000")
    /\ ReportedMinimum(995)

\* C25: for every expected output x >= 0 the minimum-output computation
\* yields a result that is at most x; with the slippage 0 the result is x
\* (an integer is its own floor), with the slippage 100 it is 0, and no
\* result is more than x * (1 - slippage / 100).
C25_SlippageFloorLaws ==
    Applied("minimum_output") =>
        LET x == applied.val.amount_out
            s == applied.val.slippage_milli
            r == applied.val.result IN
        /\ IsOk(r)
        /\ r.val <= x.m * Pow10(x.k)
        /\ r.val * HundredPercentMilli <= x.m * Pow10(x.k) * (HundredPercentMilli - s)
        /\ s = 0 => r.val = x.m * Pow10(x.k)
        /\ s = HundredPercentMilli => r.val = 0

\* The same laws where the computation yields a result.
C25_LawsOfEveryResult ==
    (Applied("minimum_output") /\ IsOk(applied.val.result)) =>
        LET x == applied.val.amount_out
            s == applied.val.slippage_milli
            r == applied.val.result IN
        /\ r.val <= x.m * Pow10(x.k)
        /\ r.val * HundredPercentMilli <= x.m * Pow10(x.k) * (HundredPercentMilli - s)
        /\ s = 0 => r.val = x.m * Pow10(x.k)
        /\ s = HundredPercentMilli => r.val = 0

\* An expected output of 2^96 or more has been given, with the slippage 0.
C25_BeyondTheMantissa ==
    /\ Applied("minimum_output")
    /\ applied.val.amount_out = Sci(8, 28)
    /\ applied.val.slippage_milli = 0
    /\ IsErr(applied.val.result)

\* An integer m * 10^k written with no zero at the end of m.
RECURSIVE Canon(_)
Canon(v) ==
    IF v.m = 0 THEN Sci(0, 0)
    ELSE IF v.m % 10 = 0 THEN Canon(Sci(v.m \div 10, v.k + 1))
    ELSE v
\* A decimal times 10^d, truncated to an integer.
Rescaled(dec, d) ==
    IF dec.e - d <= 0 THEN Canon(Sci(dec.m, d - dec.e))
    ELSE Canon(Sci(dec.m \div Pow10(dec.e - d), 0))
\* format_units has returned a text whose value, times 10^d and truncated,
\* is the raw integer again.
RoundTrips ==
    /\ IsOk(applied.val.result)
    /\ Rescaled(applied.val.result.val.dec, applied.val.decimals) = Canon(applied.val.value)

\* C26: for every raw integer and every d from 0 to 40, format_units
\* followed by the multiplication by 10^d and the truncation gives the raw
\* integer again, and the helper gives exactly 10^d.
C26_RoundTripUpToForty ==
    Applied("format_units") =>
        /\ Pow10Decimal(applied.val.decimals) = Ok(Dec(1, -applied.val.decimals))
        /\ RoundTrips

\* The round trip where format_units returns a text: the raw integer is
\* below 2^96 and d is at most 28, and those are the only cases.
C26_RoundTripWithinTheMantissa ==
    Applied("format_units") =>
        /\ IsOk(applied.val.result) <=>
              (FitsMantissa(applied.val.value) /\ applied.val.decimals <= MaxScale)
        /\ IsOk(applied.val.result) => RoundTrips

\* format_units has failed for the raw integer 1 and 29 decimals.
C26_TwentyNineDecimals ==
    /\ Applied("format_units")
    /\ applied.val.value = Sci(1, 0)
    /\ applied.val.decimals = 29
    /\ IsErr(applied.val.result)

\* (sqrtPriceX96 / 2^96)^2 for the square-root prices 0 and 2^k.
SquaredRatio(sq) == IF sq.zero THEN PZero ELSE PNum(1, 2 * sq.pow2 - 2 * MantissaBits, 0)

\* C27: the conversion accepts every square-root price of a uint160, none
\* of its steps leaving the range of the decimal, and gives
\* (sqrtPriceX96 / 2^96)^2.
C27_EveryUint160Accepted ==
    Applied("sqrt_price") =>
        /\ IsOk(applied.val.result)
        /\ applied.val.result.val = SquaredRatio(applied.val.sqrt_price_x96)

\* The conversion where it is accepted: for the square-root prices below
\* 2^96, and for no other.
C27_AcceptedBelowTheMantissa ==
    Applied("sqrt_price") =>
        LET sq == applied.val.sqrt_price_x96 IN
        /\ IsOk(applied.val.result) <=> (sq.zero \/ sq.pow2 < MantissaBits)
        /\ IsOk(applied.val.result) => applied.val.result.val = SquaredRatio(sq)

\* The square-root price 2^96 (a pool whose ratio is 1) has been refused.
C27_RatioOneRefused ==
    /\ Applied("sqrt_price")
    /\ applied.val.sqrt_price_x96 = U160Pow2(96)
    /\ IsErr(applied.val.result)

(* ------------------------------------------------------------------ *)
(* Properties of the router call and of the loop's end                 *)
(* ------------------------------------------------------------------ *)

\* C28: in every result of the swap tool the router call has been issued
\* after the quote, to the router and from the signer, with the signer as
\* recipient, the maximal deadline and the reported minimum_output as
\* amountOutMinimum; the calldata simulated is the calldata returned in
\* transaction.data, and transaction.value is "0".
C28_RouterCallParameters ==
    (CallsTool("swap_tokens") /\ pc = "loop" /\ HasResult) =>
        /\ Len(issued) = 2
        /\ issued[1].to = QuoterAddress /\ issued[1].fn = "quoteExactInputSingle"
        /\ issued[2].to = RouterAddress /\ issued[2].fn = "exactInputSingle"
        /\ issued[2].from = SignerAddress
        /\ issued[2].args.recipient = SignerAddress
        /\ issued[2].args.deadline = "U256::MAX"
        /\ issued[2].args.tokenIn = issued[1].args.tokenIn
        /\ issued[2].args.tokenOut = issued[1].args.tokenOut
        /\ issued[2].args.amountIn = issued[1].args.amountIn
        /\ ResultData.minimum_output = JStr(ToString(issued[2].args.amountOutMinimum))
        /\ ResultData.transaction.o.data = JHex(issued[2].args)
        /\ ResultData.transaction.o.value = JStr("0")

\* C28 witness: the quote 1000 has decoded, the router has been simulated
\* with the minimum 995, and the swap tool has returned its result.
C28_Witness ==
    /\ CallsTool("swap_tokens")
    /\ pc = "loop"
    /\ HasResult
    /\ answers[1] = Ok(QuoteData(1000, 21))
    /\ issued[2].args.amountOutMinimum = 995
    /\ ResultData.minimum_output = JStr("995")

\* C29: on a finite input whose remote calls all return, the loop
\* eventually ends normally at the end of the input, with a response
\* written for every line that parsed as a request.
C29_EndsNormallyAtEndOfInput == <>(pc = "done" /\ nread = total /\ nout = nreq)

\* C29: the process has died inside a tool while a request that parsed was
\* waiting for its response; the lines after it are never read.
C29_DiedBeforeTheResponse ==
    /\ pc = "crashed"
    /\ CallsTool("get_token_price")
    /\ nout < nreq
    /\ nread < total

====
